---- MODULE Spec2Model ----
(***************************************************************************)
(* A model of the preflop trainer's core: the two-stage submit state       *)
(* machine of PokerEngine (core/engine.py), the JUEGOJudge and its per-kind *)
(* rule functions (juego_judge.py), the tag resolver                        *)
(* (core/expected_action.py) and the tag lookup of JsonRangeRepository      *)
(* (json_range_repository.py).                                              *)
(*                                                                          *)
(* Python strings are TLA+ strings; str.strip, str.upper, str.startswith,   *)
(* the `in` test and float() are computed character by character.  A float  *)
(* is a decimal with ten fractional digits kept exactly (the engine         *)
(* compares with a tolerance of 1e-9), or nan, or an infinity.              *)
(***************************************************************************)
EXTENDS Integers, Sequences, FiniteSets, TLC

VARIABLES
    judge,              \* the judge object given to PokerEngine.__init__
    difficulty,         \* PokerEngine.difficulty
    current_problem,    \* PokerEngine.current_problem
    context,            \* PokerEngine.context
    followup,           \* PokerEngine.followup
    last_judge_result,  \* PokerEngine._last_judge_result
    last,               \* the last engine call: its name, argument and outcome
    call,               \* the last direct call of a pure function: name and arguments
    ret,                \* what that call returned
    generator,          \* the JuegoProblemGenerator, once one is constructed
    attempts            \* the table `attempts` of the progress database

engineVars == <<judge, difficulty, current_problem, context, followup,
                last_judge_result, last>>
pureVars == <<call, ret>>
generatorVars == <<generator, attempts>>
vars == <<judge, difficulty, current_problem, context, followup,
          last_judge_result, last, call, ret, generator, attempts>>

\* None of an enum-valued or string-valued attribute; an optional object is
\* << >> (None) or <<object>>
None == "None"
Nothing == << >>
Some(x) == <<x>>

-----------------------------------------------------------------------------
(* Python string primitives *)

LowerAlpha == "abcdefghijklmnopqrstuvwxyz"
UpperAlpha == "ABCDEFGHIJKLMNOPQRSTUVWXYZ"
Digits == "0123456789"

CharAt(s, i) == SubSeq(s, i, i)
Rest(s) == SubSeq(s, 2, Len(s))

IndexIn(alphabet, c) ==
    IF \E i \in 1..Len(alphabet) : CharAt(alphabet, i) = c
    THEN CHOOSE i \in 1..Len(alphabet) : CharAt(alphabet, i) = c
    ELSE 0

\* str.upper / str.lower on one character, as lookup tables
UpperTable ==
    [c \in {CharAt(LowerAlpha, i) : i \in 1..Len(LowerAlpha)} |->
        CharAt(UpperAlpha, IndexIn(LowerAlpha, c))]
LowerTable ==
    [c \in {CharAt(UpperAlpha, i) : i \in 1..Len(UpperAlpha)} |->
        CharAt(LowerAlpha, IndexIn(UpperAlpha, c))]
DigitTable ==
    [c \in {CharAt(Digits, i) : i \in 1..Len(Digits)} |-> IndexIn(Digits, c) - 1]

UpperChar(c) == IF c \in DOMAIN UpperTable THEN UpperTable[c] ELSE c

LowerChar(c) == IF c \in DOMAIN LowerTable THEN LowerTable[c] ELSE c

RECURSIVE Upper(_)
Upper(s) == IF s = "" THEN "" ELSE UpperChar(CharAt(s, 1)) \o Upper(Rest(s))

RECURSIVE Lower(_)
Lower(s) == IF s = "" THEN "" ELSE LowerChar(CharAt(s, 1)) \o Lower(Rest(s))

RECURSIVE LStrip(_)
LStrip(s) == IF s # "" /\ CharAt(s, 1) = " " THEN LStrip(Rest(s)) ELSE s

RECURSIVE RStrip(_)
RStrip(s) ==
    IF s # "" /\ CharAt(s, Len(s)) = " " THEN RStrip(SubSeq(s, 1, Len(s) - 1)) ELSE s

Strip(s) == RStrip(LStrip(s))

StartsWith(s, p) == Len(s) >= Len(p) /\ SubSeq(s, 1, Len(p)) = p
EndsWith(s, p) == Len(s) >= Len(p) /\ SubSeq(s, Len(s) - Len(p) + 1, Len(s)) = p
Contains(s, p) == \E i \in 1..(Len(s) - Len(p) + 1) : SubSeq(s, i, i + Len(p) - 1) = p

RECURSIVE RemoveChar(_, _)
RemoveChar(s, c) ==
    IF s = "" THEN ""
    ELSE (IF CharAt(s, 1) = c THEN "" ELSE CharAt(s, 1)) \o RemoveChar(Rest(s), c)

-----------------------------------------------------------------------------
(* float(): the value of a decimal literal.  A finite value is kept as     *)
(* hundredths (h) plus a remainder (t) counted in units of 1e-10, both     *)
(* carrying the sign, so that value = h * 1e-2 + t * 1e-10.                *)

NaN == [k |-> "nan", h |-> 0, t |-> 0]
Inf(neg) == [k |-> "inf", h |-> IF neg THEN -1 ELSE 1, t |-> 0]
Num(h, t) == [k |-> "num", h |-> h, t |-> t]
ParseError == [k |-> "ValueError", h |-> 0, t |-> 0]
\* the None of an Optional[float]
NoFloat == [k |-> "None", h |-> 0, t |-> 0]

IsDigit(c) == c \in DOMAIN DigitTable
DigitVal(c) == DigitTable[c]

\* digit (["_"] digit)* : the digit groups float() accepts
IsDigitPart(s) ==
    /\ s # ""
    /\ IsDigit(CharAt(s, 1))
    /\ IsDigit(CharAt(s, Len(s)))
    /\ \A i \in 1..Len(s) : IsDigit(CharAt(s, i)) \/ CharAt(s, i) = "_"
    /\ \A i \in 1..(Len(s) - 1) : ~(CharAt(s, i) = "_" /\ CharAt(s, i + 1) = "_")

RECURSIVE DigitsValue(_, _)
DigitsValue(s, acc) ==
    IF s = "" THEN acc ELSE DigitsValue(Rest(s), acc * 10 + DigitVal(CharAt(s, 1)))

IntPartValue(s) == IF s = "" THEN 0 ELSE DigitsValue(RemoveChar(s, "_"), 0)

\* the first ten fractional digits, as (hundredths, units of 1e-10)
FracPadded(s) == SubSeq(RemoveChar(s, "_") \o "0000000000", 1, 10)
FracHundredths(s) == DigitsValue(SubSeq(FracPadded(s), 1, 2), 0)
FracTiny(s) == DigitsValue(SubSeq(FracPadded(s), 3, 10), 0)

DotIndex(s) == IndexIn(s, ".")

UnsignedFloat(s) ==
    IF s \in {"NAN"} THEN NaN
    ELSE IF s \in {"INF", "INFINITY"} THEN Inf(FALSE)
    ELSE IF DotIndex(s) = 0
         THEN IF IsDigitPart(s) THEN Num(100 * IntPartValue(s), 0) ELSE ParseError
    ELSE LET ip == SubSeq(s, 1, DotIndex(s) - 1)
             fp == SubSeq(s, DotIndex(s) + 1, Len(s))
         IN  IF /\ (ip = "" \/ IsDigitPart(ip))
                /\ (fp = "" \/ IsDigitPart(fp))
                /\ ~(ip = "" /\ fp = "")
             THEN Num(100 * IntPartValue(ip) + (IF fp = "" THEN 0 ELSE FracHundredths(fp)),
                      IF fp = "" THEN 0 ELSE FracTiny(fp))
             ELSE ParseError

Negate(v) == IF v.k = "ValueError" \/ v.k = "nan" THEN v ELSE [v EXCEPT !.h = -v.h, !.t = -v.t]

\* float(s) for a string s; float() itself ignores surrounding blanks and case
ParseFloat(s0) ==
    LET Apply(neg, v) == IF neg THEN Negate(v) ELSE v
        Signed(s) ==
            IF s = "" THEN ParseError
            ELSE Apply(CharAt(s, 1) = "-",
                       UnsignedFloat(IF CharAt(s, 1) \in {"-", "+"} THEN Rest(s) ELSE s))
    IN  Signed(Upper(Strip(s0)))

Abs(n) == IF n < 0 THEN -n ELSE n

\* abs(a - b) < 1e-9
Close(a, b) ==
    /\ a.k = "num"
    /\ b.k = "num"
    /\ Abs(a.h - b.h) <= 2
    /\ Abs((a.h - b.h) * 100000000 + (a.t - b.t)) < 10

SameNumber(a, b) == a.k = "num" /\ b.k = "num" /\ a.h = b.h /\ a.t = b.t

-----------------------------------------------------------------------------
(* Python dicts: a function with a finite domain of strings *)

EmptyDict == << >>
DictSet(d, key, val) == [x \in (DOMAIN d) \cup {key} |-> IF x = key THEN val ELSE d[x]]
Has(d, key) == key \in DOMAIN d
Get(d, key, default) == IF key \in DOMAIN d THEN d[key] ELSE default

\* a truthy dict: `if not d` is false
NonEmpty(d) == DOMAIN d # {}

-----------------------------------------------------------------------------
(* The range documents (final_tags.json, section `ranges`).  JSON objects   *)
(* keep their member order, so an object is a sequence of <<key, value>>.   *)

OrHands == << <<"AA", "OPEN_TIGHT">>, <<"AKS", "OPEN_TIGHT">>,
              <<"AKO", "OPEN_LOOSE">>, <<"72O", "FOLD">> >>
OrHandsSparse == << <<"AA", "OPEN_TIGHT">>, <<"AKO", " OPEN_LOOSE ">> >>
OrSbHands == << <<"AA", "OPEN_3_BB">>, <<"AKS", "LIMP_CALL_2_5_BB">>,
                <<"AKO", "LimpCx2.5o">>, <<"72O", "FOLD">>, <<"KQS", "LimpCx3.5o">> >>
RolHands == << <<"AA", "ROL_ALWAYS">>, <<"AKS", "ROL_VS_FISH">>,
               <<"AKO", "OVERLIMP_VS_FISH">>, <<"72O", "FOLD">> >>
ThreeBetHands == << <<"AA", "3BET_VS_4BET_SHOVE">>, <<"AKS", "CALL_VS_OPEN_LE_3X">>,
                    <<"AKO", "FOLD_VS_3BET">>, <<"72O", "FOLD">> >>

FinalTagsDoc ==
    << <<"OR", << <<"EP", OrHands>>, <<"MP", OrHands>>,
                  <<"CO", OrHandsSparse>>, <<"BTN", OrHands>> >> >>,
       <<"OR_SB", << <<"SB", OrSbHands>> >> >>,
       <<"ROL", << <<"MP", RolHands>>, <<"CO", RolHands>>, <<"BTN", RolHands>>,
                   <<"BB_OOP", RolHands>>, <<"BBvsSB", RolHands>>,
                   <<"EMPTY", << >> >> >> >>,
       <<"cc_3bet", << <<"BB VS BTN", ThreeBetHands>>, <<"BB VS SB", ThreeBetHands>> >> >>,
       <<"BB_ISO", << >> >> >>

Documents == {FinalTagsDoc}

-----------------------------------------------------------------------------
(* JsonRangeRepository *)

_normalize_hand_to_key(hand) == RemoveChar(Upper(Strip(hand)), " ")

RECURSIVE SanitizeChars(_)
SanitizeChars(s) ==
    IF s = "" THEN ""
    ELSE (IF CharAt(s, 1) \in DOMAIN LowerTable \/ IsDigit(CharAt(s, 1))
          THEN CharAt(s, 1) ELSE "") \o SanitizeChars(Rest(s))

_pos_sanitize(pos) == SanitizeChars(Upper(Strip(pos)))

RECURSIVE LoadHandMap(_, _)
LoadHandMap(hands, acc) ==
    IF hands = << >> THEN acc
    ELSE LoadHandMap(Tail(hands),
                     DictSet(acc, _normalize_hand_to_key(Head(hands)[1]),
                             Strip(Head(hands)[2])))

\* the loop over pos_map.items(): returns [ranges |-> ..., alias |-> ...] of one kind
RECURSIVE LoadPositions(_, _)
LoadPositions(positions, acc) ==
    IF positions = << >> THEN acc
    ELSE LET p == Upper(Strip(Head(positions)[1]))
             hm == LoadHandMap(Head(positions)[2], EmptyDict)
         IN  LoadPositions(Tail(positions),
                 [ranges |-> DictSet(acc.ranges, p, hm),
                  alias |-> DictSet(DictSet(acc.alias, p, p), _pos_sanitize(p), p)])

\* the loop over ranges.items() of __init__
RECURSIVE LoadKinds(_, _)
LoadKinds(kinds, acc) ==
    IF kinds = << >> THEN acc
    ELSE LET k == Upper(Strip(Head(kinds)[1]))
             one == LoadPositions(Head(kinds)[2], [ranges |-> EmptyDict, alias |-> EmptyDict])
         IN  LoadKinds(Tail(kinds),
                 [_ranges |-> DictSet(acc._ranges, k, one.ranges),
                  _pos_alias |-> DictSet(acc._pos_alias, k, one.alias)])

JsonRangeRepository(doc) == LoadKinds(doc, [_ranges |-> EmptyDict, _pos_alias |-> EmptyDict])

Repo == JsonRangeRepository(FinalTagsDoc)

_resolve_position(repo, kind, position) ==
    LET Resolve(p, alias, ps) ==
            IF Has(alias, p) THEN alias[p]
            ELSE IF Has(alias, ps) THEN alias[ps]
            ELSE p
        Aliased(k, p) == Resolve(p, Get(repo._pos_alias, k, EmptyDict), _pos_sanitize(p))
    IN  Aliased(Upper(Strip(kind)), Upper(Strip(position)))

MissTag == ""

get_tag_for_hand(repo, kind, position, hand) ==
    LET \* hand_map = pos_map.get(p_resolved); if not hand_map: return "", debug
        InPosition(pos_map, p_resolved, hand_key, debug2) ==
            IF ~(Has(pos_map, p_resolved) /\ NonEmpty(pos_map[p_resolved]))
            THEN [tag |-> MissTag, debug |-> debug2]
            ELSE [tag |-> Strip(Get(pos_map[p_resolved], hand_key, "")), debug |-> debug2]
        InKind(pos_map, p_resolved, hand_key, debug) ==
            InPosition(pos_map, p_resolved, hand_key,
                       [debug EXCEPT !.found_kind = TRUE,
                                     !.position_resolved = p_resolved,
                                     !.found_position = Has(pos_map, p_resolved)])
        \* pos_map = self._ranges.get(k_in); if not pos_map: return "", debug
        Lookup(k_in, p_in, hand_key, debug) ==
            IF ~(Has(repo._ranges, k_in) /\ NonEmpty(repo._ranges[k_in]))
            THEN [tag |-> MissTag, debug |-> debug]
            ELSE InKind(repo._ranges[k_in], _resolve_position(repo, k_in, p_in), hand_key, debug)
        Start(k_in, p_in, hand_key) ==
            Lookup(k_in, p_in, hand_key,
                   [kind |-> k_in, position |-> p_in, hand_in |-> hand, hand_key |-> hand_key,
                    found_kind |-> FALSE, found_position |-> FALSE, position_resolved |-> ""])
    IN  Start(Upper(Strip(kind)), Upper(Strip(position)), _normalize_hand_to_key(hand))

list_positions(repo, kind) == DOMAIN Get(repo._ranges, Upper(Strip(kind)), EmptyDict)

-----------------------------------------------------------------------------
(* juego_judge.py: vocabulary and normalisation *)

A_FOLD == "FOLD"
A_RAISE == "RAISE"
A_CALL == "CALL"
A_LIMP_CALL == "LIMP_CALL"
A_CHECK == "CHECK"

\* the alphabet of the model holds no NBSP, so only the strip() is left of _norm_ws
_norm_ws(s) == Strip(s)

_norm_tag(tag) == Upper(_norm_ws(tag))

\* a faulty normalisation: OR_SB is given no limp action of its own
_norm_user_actionNoLimp(user_action, kind) ==
    LET Norm(ua) ==
            IF ua \in {"", A_FOLD} THEN A_FOLD
            ELSE IF \/ StartsWith(ua, "OPEN") \/ StartsWith(ua, "RAISE") \/ StartsWith(ua, "3BET")
                    \/ StartsWith(ua, "4BET") \/ StartsWith(ua, "SHOVE")
                 THEN A_RAISE
            ELSE IF ua \in {"CALL", "CHECK_CALL", "LIMP", A_LIMP_CALL} THEN A_CALL
            ELSE IF ua = A_CHECK THEN A_CHECK
            ELSE ua
    IN  Norm(Upper(_norm_ws(user_action)))

_norm_user_action(user_action, kind) ==
    LET Norm(ua) ==
            IF ua \in {"", A_FOLD} THEN A_FOLD
            ELSE IF \/ StartsWith(ua, "OPEN") \/ StartsWith(ua, "RAISE") \/ StartsWith(ua, "3BET")
                    \/ StartsWith(ua, "4BET") \/ StartsWith(ua, "SHOVE")
                 THEN A_RAISE
            ELSE IF ua \in {"CALL", "CHECK_CALL", "LIMP", A_LIMP_CALL}
                 THEN IF kind = "OR_SB" THEN A_LIMP_CALL
                      ELSE IF kind \in {"CC_3BET", "3BET_VS_COLD4BET", "CALL_3BET_4BET",
                                        "CC_3BET_MULTI"}
                           THEN A_CALL
                      ELSE A_CALL
            ELSE IF ua = A_CHECK THEN A_CHECK
            ELSE ua
    IN  Norm(Upper(_norm_ws(user_action)))

\* the regular expression ([0-9]+(?:_[0-9]+)?)\s*_?BB\b of _parse_bb_from_tag
RECURSIVE DigitRunEnd(_, _)
DigitRunEnd(t, i) ==
    IF i <= Len(t) /\ IsDigit(CharAt(t, i)) THEN DigitRunEnd(t, i + 1) ELSE i - 1

RECURSIVE BlankRunEnd(_, _)
BlankRunEnd(t, i) ==
    IF i <= Len(t) /\ CharAt(t, i) = " " THEN BlankRunEnd(t, i + 1) ELSE i - 1

IsWordChar(c) ==
    c \in DOMAIN LowerTable \/ c \in DOMAIN UpperTable \/ IsDigit(c) \/ c = "_"

\* end of the number matched at i (0: no match at i)
BbNumberEnd(t, i) ==
    LET Check(numEnd, bb) ==
            IF SubSeq(t, bb, bb + 1) = "BB"
               /\ (bb + 2 > Len(t) \/ ~IsWordChar(CharAt(t, bb + 2)))
            THEN numEnd ELSE 0
        AfterBlanks(numEnd, sp) ==
            Check(numEnd, IF CharAt(t, sp + 1) = "_" THEN sp + 2 ELSE sp + 1)
        AfterNumber(numEnd) == AfterBlanks(numEnd, BlankRunEnd(t, numEnd + 1))
        AfterDigits(d1) ==
            AfterNumber(IF CharAt(t, d1 + 1) = "_" /\ IsDigit(CharAt(t, d1 + 2))
                        THEN DigitRunEnd(t, d1 + 2) ELSE d1)
    IN  IF ~IsDigit(CharAt(t, i)) THEN 0 ELSE AfterDigits(DigitRunEnd(t, i))

RECURSIVE ReplaceChar(_, _, _)
ReplaceChar(s, c, d) ==
    IF s = "" THEN ""
    ELSE (IF CharAt(s, 1) = c THEN d ELSE CharAt(s, 1)) \o ReplaceChar(Rest(s), c, d)

_parse_bb_from_tag(tag_upper) ==
    LET Value(v) == IF v.k = "ValueError" THEN NoFloat ELSE v
        Matched(i, numEnd) ==
            Value(ParseFloat(ReplaceChar(SubSeq(tag_upper, i, numEnd), "_", ".")))
        At(i) == Matched(i, BbNumberEnd(tag_upper, i))
        First(starts) ==
            IF starts = {} THEN NoFloat
            ELSE At(CHOOSE i \in starts : \A j \in starts : i <= j)
    IN  First({i \in 1..Len(tag_upper) : BbNumberEnd(tag_upper, i) > 0})

-----------------------------------------------------------------------------
(* juego_judge.py: tag -> expected action *)

_expected_action_or(tag_upper, loose) ==
    IF loose
    THEN (IF tag_upper \in {"OPEN_TIGHT", "OPEN_LOOSE"} THEN A_RAISE ELSE A_FOLD)
    ELSE (IF tag_upper = "OPEN_TIGHT" THEN A_RAISE ELSE A_FOLD)

_expected_action_or_sb(tag_upper) ==
    IF StartsWith(tag_upper, "OPEN_") THEN A_RAISE
    ELSE IF StartsWith(tag_upper, "LIMP_CALL_") THEN A_LIMP_CALL
    ELSE A_FOLD

\* a faulty rule: a tag of no family counts as aggressive
_expected_action_3betAggressive(tag_upper) ==
    IF \/ StartsWith(tag_upper, "CALL_VS_OPEN") \/ StartsWith(tag_upper, "CALL_VS_3BET")
       \/ StartsWith(tag_upper, "CALL_")
    THEN A_CALL
    ELSE IF StartsWith(tag_upper, "FOLD") THEN A_FOLD
    ELSE A_RAISE

_expected_action_3bet(tag_upper) ==
    IF \/ StartsWith(tag_upper, "CALL_VS_OPEN") \/ StartsWith(tag_upper, "CALL_VS_3BET")
       \/ StartsWith(tag_upper, "CALL_")
    THEN A_CALL
    ELSE IF StartsWith(tag_upper, "FOLD") THEN A_FOLD
    ELSE IF \/ Contains(tag_upper, "3BET") \/ Contains(tag_upper, "4BET")
            \/ Contains(tag_upper, "SHOVE")
         THEN A_RAISE
    ELSE A_FOLD

\* a faulty rule: the BBvsSB special case comes after the ROL_VS_FISH rule
_expected_action_rolFishFirst(position, tag_upper, loose) ==
    LET pos == _norm_ws(position) IN
    IF tag_upper = "ROL_ALWAYS"
    THEN (IF pos = "BBvsSB" THEN <<A_RAISE, Num(400, 0)>> ELSE <<A_RAISE, Num(500, 0)>>)
    ELSE IF tag_upper = "ROL_VS_FISH" THEN (IF loose THEN <<A_CALL, NoFloat>> ELSE <<A_FOLD, NoFloat>>)
    ELSE IF pos = "BBvsSB" THEN <<A_CHECK, NoFloat>>
    ELSE IF tag_upper = "OVERLIMP_VS_FISH" THEN <<A_CALL, NoFloat>>
    ELSE <<A_FOLD, NoFloat>>

\* returns <<expected_action, expected_raise_size_bb>>
_expected_action_rol(position, tag_upper, loose) ==
    LET pos == _norm_ws(position) IN
    IF pos = "BBvsSB"
    THEN (IF tag_upper = "ROL_ALWAYS" THEN <<A_RAISE, Num(400, 0)>> ELSE <<A_CHECK, NoFloat>>)
    ELSE IF tag_upper = "ROL_ALWAYS" THEN <<A_RAISE, Num(500, 0)>>
    ELSE IF tag_upper = "OVERLIMP_VS_FISH" THEN <<A_CALL, NoFloat>>
    ELSE IF tag_upper = "ROL_VS_FISH" THEN (IF loose THEN <<A_CALL, NoFloat>> ELSE <<A_FOLD, NoFloat>>)
    ELSE <<A_FOLD, NoFloat>>

-----------------------------------------------------------------------------
(* str() of an int and of a float *)

RECURSIVE NatStr(_)
NatStr(n) == IF n < 10 THEN CharAt(Digits, n + 1) ELSE NatStr(n \div 10) \o CharAt(Digits, (n % 10) + 1)

RECURSIVE PadLeft(_, _)
PadLeft(s, width) == IF Len(s) >= width THEN s ELSE PadLeft("0" \o s, width)

RECURSIVE StripTrailingZeros(_)
StripTrailingZeros(s) ==
    IF Len(s) > 1 /\ CharAt(s, Len(s)) = "0" THEN StripTrailingZeros(SubSeq(s, 1, Len(s) - 1)) ELSE s

FloatRepr(v) ==
    IF v.k = "None" THEN "None"
    ELSE IF v.k = "nan" THEN "nan"
    ELSE IF v.k = "inf" THEN (IF v.h < 0 THEN "-inf" ELSE "inf")
    ELSE (IF v.h < 0 \/ v.t < 0 THEN "-" ELSE "")
         \o NatStr(Abs(v.h) \div 100) \o "."
         \o StripTrailingZeros(PadLeft(NatStr(Abs(v.h) % 100), 2) \o PadLeft(NatStr(Abs(v.t)), 8))

-----------------------------------------------------------------------------
(* JUEGOJudge *)

_repo_get_tag(repo, kind, position, hand) == get_tag_for_hand(repo, kind, position, hand)

\* a payload of the verdict alone
BaseDebugOfVerdict(kind, position, hand, tag, tag_u, loose, user_action, ua, expected, repo_dbg) ==
    [kind |-> kind, tag_upper |-> tag_u, loose |-> loose, user_action_raw |-> user_action,
     user_action |-> ua, expected_action |-> expected, correct_action |-> expected]
BaseDebug(kind, position, hand, tag, tag_u, loose, user_action, ua, expected, repo_dbg) ==
    [kind |-> kind, position |-> position, hand |-> hand, tag |-> tag, detail_tag |-> tag,
     expected_tag |-> tag, tag_upper |-> tag_u, loose |-> loose,
     user_action_raw |-> user_action, user_action |-> ua, expected_action |-> expected,
     correct_action |-> expected, repo |-> repo_dbg]

JudgeResult(action, correct, reason, debug) ==
    [action |-> action, correct |-> correct, reason |-> reason, debug |-> debug]

judge_or(repo, position, hand, user_action, loose) ==
    LET kind == "OR"
        Verdict(got, tag_u, expected, ua) ==
            JudgeResult(expected, ua = expected, "Tag=" \o tag_u \o " -> " \o expected,
                        BaseDebug(kind, position, hand, got.tag, tag_u, loose, user_action, ua,
                                  expected, got.debug))
        Tagged(got, tag_u) ==
            Verdict(got, tag_u, _expected_action_or(tag_u, loose),
                    _norm_user_action(user_action, kind))
        Looked(got) == Tagged(got, _norm_tag(got.tag))
    IN  Looked(_repo_get_tag(repo, kind, position, hand))

judge_or_sb(repo, position, hand, user_action, loose) ==
    LET kind == "OR_SB"
        Verdict(got, tag_u, expected, ua, bb) ==
            JudgeResult(expected, ua = expected, "Tag=" \o tag_u \o " -> " \o expected,
                        BaseDebug(kind, position, hand, got.tag, tag_u, loose, user_action, ua,
                                  expected, got.debug)
                        @@ [expected_raise_size_bb |->
                                IF expected = A_RAISE THEN bb ELSE NoFloat,
                            followup_expected_max_bb |->
                                IF expected = A_LIMP_CALL THEN bb ELSE NoFloat])
        Tagged(got, tag_u) ==
            Verdict(got, tag_u, _expected_action_or_sb(tag_u),
                    _norm_user_action(user_action, kind), _parse_bb_from_tag(tag_u))
        Looked(got) == Tagged(got, _norm_tag(got.tag))
    IN  Looked(_repo_get_tag(repo, kind, position, hand))

judge_3bet(repo, position, hand, user_action, loose) ==
    LET kind == "CC_3BET"
        Verdict(got, tag_u, expected, ua) ==
            JudgeResult(expected, ua = expected, "Tag=" \o tag_u \o " -> " \o expected,
                        BaseDebug(kind, position, hand, got.tag, tag_u, loose, user_action, ua,
                                  expected, got.debug))
        Tagged(got, tag_u) ==
            Verdict(got, tag_u, _expected_action_3bet(tag_u),
                    _norm_user_action(user_action, kind))
        Looked(got) == Tagged(got, _norm_tag(got.tag))
    IN  Looked(_repo_get_tag(repo, kind, position, hand))

judge_rol(repo, position, hand, user_action, loose) ==
    LET kind == "ROL"
        Verdict(got, tag_u, exp, ua) ==
            JudgeResult(exp[1], ua = exp[1],
                        "Tag=" \o tag_u \o " -> " \o exp[1]
                            \o (IF exp[2].k = "num" /\ (exp[2].h # 0 \/ exp[2].t # 0)
                                THEN " (" \o FloatRepr(exp[2]) \o "BB)" ELSE ""),
                        BaseDebug(kind, position, hand, got.tag, tag_u, loose, user_action, ua,
                                  exp[1], got.debug)
                        @@ [expected_raise_size_bb |-> exp[2]])
        \* LIMP_CALL is taken as CALL
        Answered(got, tag_u, exp, ua0) ==
            Verdict(got, tag_u, exp, IF ua0 = A_LIMP_CALL THEN A_CALL ELSE ua0)
        Tagged(got, tag_u) ==
            Answered(got, tag_u, _expected_action_rol(position, tag_u, loose),
                     _norm_user_action(user_action, kind))
        Looked(got) == Tagged(got, _norm_tag(got.tag))
    IN  Looked(_repo_get_tag(repo, kind, position, hand))

\* the rule of judge_bb_iso, written in the method
_expected_action_bb_iso(tag_upper) ==
    IF Contains(tag_upper, "RAISE") \/ StartsWith(tag_upper, "ISO") THEN A_RAISE ELSE A_CHECK

judge_bb_iso(repo, position, hand, user_action, limpers, loose) ==
    LET kind == "BB_ISO"
        Verdict(got, tag_u, expected, ua) ==
            JudgeResult(expected, ua = expected, "Tag=" \o tag_u \o " -> " \o expected,
                        BaseDebug(kind, position, hand, got.tag, tag_u, loose, user_action, ua,
                                  expected, got.debug)
                        @@ [limpers |-> limpers])
        Tagged(got, tag_u) ==
            Verdict(got, tag_u, _expected_action_bb_iso(tag_u),
                    _norm_user_action(user_action, kind))
        Looked(got) == Tagged(got, _norm_tag(got.tag))
    IN  Looked(_repo_get_tag(repo, kind, position, hand))

-----------------------------------------------------------------------------
(* The collaborators given to PokerEngine: a judge and a question generator *)

\* JUEGOJudge over the repository, or the FakeJudge of tests/test_engine_followup.py,
\* which has judge_or_sb and judge_or only
Judges == {"JUEGOJudge", "FakeJudge"}

HasJudgeRol(j) == j = "JUEGOJudge"

FakeResult(tag_upper) == [correct |-> TRUE, reason |-> "ok", debug |-> [tag_upper |-> tag_upper]]

Raised(e) == [raised |-> TRUE, error |-> e, result |-> Nothing]
Returned(r) == [raised |-> FALSE, error |-> "", result |-> Some(r)]

\* the call self.juego_judge.judge_<kind>(...) of submit
CallJudge(j, problem, ctx, ua) ==
    IF j = "JUEGOJudge"
    THEN CASE problem = "JUEGO_OR" ->
                Returned(judge_or(Repo, ctx.position, ctx.excel_hand_key, ua, ctx.loose_player_exists))
           [] problem = "JUEGO_OR_SB" ->
                Returned(judge_or_sb(Repo, "SB", ctx.excel_hand_key, ua, FALSE))
           [] problem = "JUEGO_3BET" ->
                Returned(judge_3bet(Repo, ctx.position, ctx.excel_hand_key, ua, ctx.loose_player_exists))
           [] problem = "JUEGO_ROL" ->
                Returned(judge_rol(Repo, ctx.position, ctx.excel_hand_key, ua, ctx.loose_player_exists))
    ELSE CASE problem = "JUEGO_OR" -> Returned(FakeResult("FOLD"))
           [] problem = "JUEGO_OR_SB" -> Returned(FakeResult("LIMPCX2.5O"))
           [] OTHER -> Raised("AttributeError")

Difficulties == {"BEGINNER", "INTERMEDIATE", "ADVANCED"}

\* hand keys as to_hand_key writes them, each with hole cards that give it
GenHands == { [key |-> "AA", cards |-> <<"As", "Ad">>],
              [key |-> "AKs", cards |-> <<"As", "Ks">>],
              [key |-> "AKo", cards |-> <<"As", "Kd">>],
              [key |-> "72o", cards |-> <<"7h", "2c">>],
              [key |-> "KQs", cards |-> <<"Ks", "Qs">>] }

\* the positions the generator's random choice is taken from in the model
GenPositions == {"CO", "BTN", "SB", "BBvsSB"}

OpenRaiseProblemContext(hand, position, open_size_bb, loose, limpers) ==
    [hole_cards |-> hand.cards, position |-> position, open_size_bb |-> open_size_bb,
     loose_player_exists |-> loose, excel_hand_key |-> hand.key,
     excel_position_key |-> position, limpers |-> limpers]

_generate_or_problem_beginner ==
    { OpenRaiseProblemContext(hand, position,
                              IF position = "BTN" THEN Num(250, 0) ELSE Num(300, 0), loose, 0) :
        hand \in GenHands, position \in {"EP", "MP", "CO", "BTN"} \cap GenPositions,
        loose \in BOOLEAN }

_generate_or_sb_problem_intermediate ==
    { OpenRaiseProblemContext(hand, "SB", Num(300, 0), FALSE, 0) : hand \in GenHands }

\* positions_3bet is repo.list_positions("CC_3BET")
_generate_3bet_problem ==
    { OpenRaiseProblemContext(hand, position, Num(0, 0), FALSE, 0) :
        hand \in GenHands,
        position \in (IF list_positions(Repo, "CC_3BET") # {}
                      THEN list_positions(Repo, "CC_3BET") ELSE {"BB_VS_SB"}) }

_generate_rol_problem ==
    { OpenRaiseProblemContext(hand, position,
                              IF position = "BBvsSB" THEN Num(400, 0) ELSE Num(500, 0), loose, 1) :
        hand \in GenHands,
        position \in {"MP", "CO", "BTN", "SB", "BB_OOP", "BBvsSB"} \cap GenPositions,
        loose \in BOOLEAN }

\* the fallback of _generate_context for any other problem type
_generate_fallback ==
    { OpenRaiseProblemContext(hand, "", Num(0, 0), FALSE, 0) : hand \in GenHands }

_generate_context(problem_type) ==
    CASE problem_type = "JUEGO_OR" -> _generate_or_problem_beginner
      [] problem_type = "JUEGO_OR_SB" -> _generate_or_sb_problem_intermediate
      [] problem_type = "JUEGO_ROL" -> _generate_rol_problem
      [] problem_type = "JUEGO_3BET" -> _generate_3bet_problem
      [] OTHER -> _generate_fallback

GeneratedTypes == {"JUEGO_OR", "JUEGO_OR_SB", "JUEGO_ROL", "JUEGO_3BET", "JUEGO_BB_ISO"}

\* what generator.generate(difficulty) can return
Generated ==
    UNION { { [problem_type |-> pt, ctx |-> c] : c \in _generate_context(pt) } :
            pt \in GeneratedTypes }

-----------------------------------------------------------------------------
(* core/engine.py: PokerEngine *)

FOLLOWUP_CHOICES == <<Num(200, 0), Num(225, 0), Num(250, 0), Num(300, 0)>>

SubmitResult(text, is_correct, show_next_button, show_followup_buttons, hide_followup_buttons, judge_result, followup_choices, followup_prompt) ==
    [text |-> text, is_correct |-> is_correct, show_next_button |-> show_next_button,
     show_followup_buttons |-> show_followup_buttons,
     hide_followup_buttons |-> hide_followup_buttons, judge_result |-> judge_result,
     followup_choices |-> followup_choices, followup_prompt |-> followup_prompt]

\* a result that only reports: no verdict, no button change
Notice(text) == SubmitResult(text, None, FALSE, FALSE, FALSE, Nothing, Nothing, None)

SBLimpFollowUpContext(hand_key, expected_max_bb, source_tag) ==
    [hand_key |-> hand_key, expected_max_bb |-> expected_max_bb, source_tag |-> source_tag]

PyBool(b) == IF b THEN "True" ELSE "False"

_parse_limp_tag_to_max_bb(tag) ==
    LET Value(v) == IF v.k = "ValueError" THEN NoFloat ELSE v
        Body(body0) ==
            Value(ParseFloat(IF EndsWith(Lower(body0), "o")
                             THEN SubSeq(body0, 1, Len(body0) - 1) ELSE body0))
        Stripped(t) ==
            IF ~StartsWith(Upper(t), "LIMPCX") THEN NoFloat
            ELSE Body(Strip(SubSeq(t, Len("LimpCx") + 1, Len(t))))
    IN  IF tag = "" THEN NoFloat ELSE Stripped(Strip(tag))

\* what a submit does: the result it returns (or the exception it lets through) and
\* the attributes it leaves
Outcome(raised, res, fu, ljr, judge_called) ==
    [raised |-> raised, res |-> res, followup |-> fu, last_judge_result |-> ljr,
     judge_called |-> judge_called]

\* a faulty parse-failure branch: the follow-up is dropped
FollowupParseFailDrops(ua_raw, fu, ljr) ==
    Outcome(FALSE,
            SubmitResult(<<"pick_a_number", ua_raw>>, None, FALSE, TRUE, FALSE, ljr,
                         Some(FOLLOWUP_CHOICES), "followup_prompt"),
            Nothing, ljr, FALSE)

\* the except ValueError branch of the follow-up phase (lines 117-130)
FollowupParseFail(ua_raw, fu, ljr) ==
    Outcome(FALSE,
            SubmitResult(<<"pick_a_number", ua_raw>>, None, FALSE, TRUE, FALSE, ljr,
                         Some(FOLLOWUP_CHOICES), "followup_prompt"),
            fu, ljr, FALSE)

\* a faulty grading: a wrong number leaves the follow-up pending
FollowupGradeStuck(chosen, fu, ljr) ==
    Outcome(FALSE,
            SubmitResult(IF Close(chosen, fu[1].expected_max_bb)
                         THEN <<"followup_correct", FloatRepr(fu[1].expected_max_bb),
                                fu[1].source_tag>>
                         ELSE <<"followup_incorrect", FloatRepr(fu[1].expected_max_bb),
                                FloatRepr(chosen), fu[1].source_tag>>,
                         PyBool(Close(chosen, fu[1].expected_max_bb)), TRUE, FALSE, TRUE, ljr,
                         Nothing, None),
            IF Close(chosen, fu[1].expected_max_bb) THEN Nothing ELSE fu, ljr, FALSE)

\* the grading of a follow-up answer (lines 132-155)
FollowupGrade(chosen, fu, ljr) ==
    LET expected == fu[1].expected_max_bb
        ok == Close(chosen, expected)
        src == fu[1].source_tag
    IN  Outcome(FALSE,
                SubmitResult(IF ok THEN <<"followup_correct", FloatRepr(expected), src>>
                             ELSE <<"followup_incorrect", FloatRepr(expected),
                                    FloatRepr(chosen), src>>,
                             PyBool(ok), TRUE, FALSE, TRUE, ljr, Nothing, None),
                Nothing, ljr, FALSE)

\* lines 109-155
FollowupPhase(ua_raw, fu, ljr) ==
    LET Parsed(chosen) ==
            IF chosen.k = "ValueError" THEN FollowupParseFail(ua_raw, fu, ljr)
            ELSE FollowupGrade(chosen, fu, ljr)
    IN  Parsed(ParseFloat(ua_raw))

\* lines 182-187
Allowed(problem) ==
    IF problem = "JUEGO_ROL" THEN {"FOLD", "RAISE", "CALL", "CHECK", "LIMP_CALL"}
    ELSE IF problem = "JUEGO_3BET" THEN {"FOLD", "RAISE", "CALL"}
    ELSE {"FOLD", "RAISE", "LIMP_CALL"}

\* lines 285-291: the tag the engine reads out of the judge's debug
DebugTag(result) ==
    LET dbg == result.debug
        keys == <<"tag_upper", "detail_tag", "tag", "expected_tag">>
        hits == {i \in 1..Len(keys) : Has(dbg, keys[i]) /\ dbg[keys[i]] # ""}
    IN  IF hits = {} THEN ""
        ELSE dbg[keys[CHOOSE i \in hits : \A j \in hits : i <= j]]

\* a faulty entry test: the verdict is not looked at
EntersFollowupAnyVerdict(problem, is_correct, expected_max) ==
    problem = "JUEGO_OR_SB" /\ expected_max.k # "None"

\* line 293-295: whether the second stage starts
EntersFollowup(problem, is_correct, expected_max) ==
    problem = "JUEGO_OR_SB" /\ is_correct /\ expected_max.k # "None"

\* lines 270-325: what submit makes of the judge's result
Graded(problem, ctx, result) ==
    LET Decide(is_correct, reason, tag, expected_max) ==
            IF EntersFollowup(problem, is_correct, expected_max)
            THEN Outcome(FALSE,
                         SubmitResult(<<"followup_start">>, None, FALSE, TRUE, FALSE,
                                      Some(result), Some(FOLLOWUP_CHOICES), "followup_prompt"),
                         Some(SBLimpFollowUpContext(ctx.excel_hand_key, expected_max, tag)),
                         Some(result), TRUE)
            ELSE Outcome(FALSE,
                         SubmitResult(IF is_correct THEN <<"correct">>
                                      ELSE <<"incorrect", reason>>,
                                      PyBool(is_correct), TRUE, FALSE, TRUE, Some(result),
                                      Nothing, None),
                         Nothing, Some(result), TRUE)
        Tagged(is_correct, reason, tag) ==
            Decide(is_correct, reason, tag, _parse_limp_tag_to_max_bb(tag))
    IN  Tagged(("correct" \in DOMAIN result) /\ result.correct,
               IF "reason" \in DOMAIN result THEN result.reason ELSE "",
               DebugTag(result))

\* a faulty handler: the judge's exception leaves submit
JudgeRaisedPropagates(e, ljr) == Outcome(TRUE, Notice(<<"internal_error", e>>), Nothing, ljr, TRUE)

\* lines 259-268: except Exception
JudgeRaised(e, ljr) == Outcome(FALSE, Notice(<<"internal_error", e>>), Nothing, ljr, TRUE)

\* lines 161-325
FirstStage(j, problem, ctx, ua_raw, ljr) ==
    LET Judged(got) ==
            IF got.raised THEN JudgeRaised(got.error, ljr)
            ELSE Graded(problem, ctx[1], got.result[1])
    IN
    IF problem = None THEN Outcome(FALSE, Notice(<<"select_difficulty">>), Nothing, ljr, FALSE)
    ELSE IF ctx = Nothing THEN Outcome(FALSE, Notice(<<"context_missing">>), Nothing, ljr, FALSE)
    ELSE IF ua_raw \notin Allowed(problem)
         THEN Outcome(FALSE, Notice(<<"invalid_action", ua_raw>>), Nothing, ljr, FALSE)
    ELSE IF problem \notin {"JUEGO_OR", "JUEGO_OR_SB", "JUEGO_3BET", "JUEGO_ROL"}
         THEN Outcome(FALSE, Notice(<<"unknown_problem_type">>), Nothing, ljr, FALSE)
    ELSE IF problem = "JUEGO_ROL" /\ ~HasJudgeRol(j)
         THEN Outcome(FALSE, Notice(<<"judge_rol_missing">>), Nothing, ljr, FALSE)
    ELSE Judged(CallJudge(j, problem, ctx[1],
                          IF problem = "JUEGO_ROL" /\ ua_raw = "LIMP_CALL" THEN "CALL"
                          ELSE ua_raw))

\* submit(user_action): user_action is Nothing (None) or Some(string)
submit(j, problem, ctx, fu, ljr, user_action) ==
    LET Phase(ua_raw) ==
            IF fu # Nothing THEN FollowupPhase(ua_raw, fu, ljr)
            ELSE FirstStage(j, problem, ctx, ua_raw, ljr)
    IN  IF user_action = Nothing
        THEN Outcome(FALSE, Notice(<<"action_unspecified">>), fu, ljr, FALSE)
        ELSE Phase(Upper(Strip(user_action[1])))

\* a faulty new_question: the checks come before the clearing
new_questionChecksFirst(diff, problem, ctx, gen) ==
    IF diff = None \/ gen.raised
    THEN [raised |-> TRUE, error |-> IF diff = None THEN "ValueError" ELSE gen.error,
          followup |-> followup, last_judge_result |-> last_judge_result,
          current_problem |-> problem, context |-> ctx]
    ELSE [raised |-> FALSE, error |-> "", followup |-> Nothing,
          last_judge_result |-> Nothing, current_problem |-> gen.result[1].problem_type,
          context |-> Some(gen.result[1].ctx)]

\* new_question(): gen is what self.generator.generate(self.difficulty) does
new_question(diff, problem, ctx, gen) ==
    IF diff = None
    THEN [raised |-> TRUE, error |-> "ValueError", followup |-> Nothing,
          last_judge_result |-> Nothing, current_problem |-> problem, context |-> ctx]
    ELSE IF gen.raised
    THEN [raised |-> TRUE, error |-> gen.error, followup |-> Nothing,
          last_judge_result |-> Nothing, current_problem |-> problem, context |-> ctx]
    ELSE [raised |-> FALSE, error |-> "", followup |-> Nothing,
          last_judge_result |-> Nothing, current_problem |-> gen.result[1].problem_type,
          context |-> Some(gen.result[1].ctx)]

\* a generator returns a question or raises (JuegoProblemGenerator.generate iterates
\* its argument, which a Difficulty does not allow)
GeneratorOutcomes == { Returned(g) : g \in Generated } \cup { Raised("TypeError") }

\* the arguments submit is called with: None, the action buttons, the follow-up
\* choices, and strings that are neither
SubmitInputs ==
    { Nothing } \cup
    { Some(x) : x \in {"FOLD", "RAISE", "CALL", "CHECK", "LIMP_CALL", " fold ",
                       "2.5", "3", "2.5000000001", "abc"} }

\* the record of a call: its argument, what it returned or that it raised, whether it
\* called the judge, and whether a follow-up was pending when it was made
Call(op, arg, raised, res, judge_called, pending) ==
    [op |-> op, arg |-> arg, raised |-> raised, res |-> res,
     judge_called |-> judge_called, pending |-> pending]

-----------------------------------------------------------------------------
(* The engine as a state machine: one action per public method *)

EngineInit ==
    /\ judge \in Judges
    /\ difficulty = None
    /\ current_problem = None
    /\ context = Nothing
    /\ followup = Nothing
    /\ last_judge_result = Nothing
    /\ last = Call("__init__", Nothing, FALSE, Nothing, FALSE, FALSE)

PureIdle == call = Nothing /\ ret = Nothing

\* no generator yet, and a database file without the table
GeneratorIdle == generator = Nothing /\ attempts = Nothing

Init == EngineInit /\ PureIdle /\ GeneratorIdle

ResetState ==
    /\ difficulty' = None
    /\ current_problem' = None
    /\ context' = Nothing
    /\ followup' = Nothing
    /\ last_judge_result' = Nothing
    /\ last' = Call("reset_state", Nothing, FALSE, Nothing, FALSE, followup # Nothing)
    /\ UNCHANGED <<generatorVars, judge, call, ret>>

StartYokosawaOpen ==
    /\ difficulty' = None
    /\ current_problem' = "YOKOSAWA_OPEN"
    /\ context' = Nothing
    /\ followup' = Nothing
    /\ last_judge_result' = Nothing
    /\ last' = Call("start_yokosawa_open", Nothing, FALSE, Nothing, FALSE, followup # Nothing)
    /\ UNCHANGED <<generatorVars, judge, call, ret>>

StartJuego ==
    \E d \in Difficulties :
        /\ difficulty' = d
        /\ current_problem' = None
        /\ context' = Nothing
        /\ followup' = Nothing
        /\ last_judge_result' = Nothing
        /\ last' = Call("start_juego", Some(d), FALSE, Nothing, FALSE, followup # Nothing)
        /\ UNCHANGED <<generatorVars, judge, call, ret>>

NewQuestion ==
    \E gen \in GeneratorOutcomes :
        \E o \in {new_question(difficulty, current_problem, context, gen)} :
            /\ followup' = o.followup
            /\ last_judge_result' = o.last_judge_result
            /\ current_problem' = o.current_problem
            /\ context' = o.context
            /\ last' = Call("new_question", Nothing, o.raised, Nothing, FALSE,
                           followup # Nothing)
            /\ UNCHANGED <<generatorVars, judge, difficulty, call, ret>>

Submit ==
    \E user_action \in SubmitInputs :
        \E o \in {submit(judge, current_problem, context, followup, last_judge_result,
                         user_action)} :
            /\ followup' = o.followup
            /\ last_judge_result' = o.last_judge_result
            /\ last' = Call("submit", user_action, o.raised,
                            IF o.raised THEN Nothing ELSE Some(o.res), o.judge_called,
                            followup # Nothing)
            /\ UNCHANGED <<generatorVars, judge, difficulty, current_problem, context, call, ret>>

Next == ResetState \/ StartYokosawaOpen \/ StartJuego \/ NewQuestion \/ Submit

Spec == Init /\ [][Next]_vars

-----------------------------------------------------------------------------
(* core/expected_action.py *)

\* the members of Action that resolve_expected_action names
Actions == {"FOLD", "RAISE", "CALL", "CHECK", "LIMP"}

ProblemContext(position, loose_player_exists, bb_vs_sb, open_size_bb) ==
    [position |-> position, loose_player_exists |-> loose_player_exists,
     bb_vs_sb |-> bb_vs_sb, open_size_bb |-> open_size_bb]

ExpectedAction(action, size_bb, followup_expected_action, followup_required) ==
    [action |-> action, size_bb |-> size_bb,
     followup_expected_action |-> followup_expected_action,
     followup_required |-> followup_required]

\* ExpectedAction(action=...) with the other fields left at their defaults
Plain(action) == ExpectedAction(action, NoFloat, None, FALSE)

\* a faulty table: the button opens to 3bb like the rest
_OR_OPEN_SIZE_BY_POSITIONFlat == [pos \in {"EP", "MP", "CO", "BTN", "SB"} |-> Num(300, 0)]

_OR_OPEN_SIZE_BY_POSITION ==
    [pos \in {"EP", "MP", "CO", "BTN", "SB"} |-> IF pos = "BTN" THEN Num(250, 0) ELSE Num(300, 0)]

\* a faulty table: the 2.25 threshold rounded to 2.5
_SB_LIMP_THRESHOLD_BY_TAGRounded ==
    [t \in {"SB_LIMP_CALL_LE_3BB", "SB_LIMP_CALL_LE_2_5BB", "SB_LIMP_CALL_LE_2_25BB",
            "SB_LIMP_CALL_LE_2BB"} |->
        CASE t = "SB_LIMP_CALL_LE_3BB" -> Num(300, 0)
          [] t = "SB_LIMP_CALL_LE_2_5BB" -> Num(250, 0)
          [] t = "SB_LIMP_CALL_LE_2_25BB" -> Num(250, 0)
          [] OTHER -> Num(200, 0)]

_SB_LIMP_THRESHOLD_BY_TAG ==
    [t \in {"SB_LIMP_CALL_LE_3BB", "SB_LIMP_CALL_LE_2_5BB", "SB_LIMP_CALL_LE_2_25BB",
            "SB_LIMP_CALL_LE_2BB"} |->
        CASE t = "SB_LIMP_CALL_LE_3BB" -> Num(300, 0)
          [] t = "SB_LIMP_CALL_LE_2_5BB" -> Num(250, 0)
          [] t = "SB_LIMP_CALL_LE_2_25BB" -> Num(225, 0)
          [] OTHER -> Num(200, 0)]

\* a faulty family rule: the follow-up chosen by the prefix of the tag, so that
\* 3BET_VS_4BET_CALL_SITUATIONAL asks for the follow-up of 3BET_VS_4BET_CALL
Resolve3betVs4betByPrefix(t) ==
    IF StartsWith(t, "3BET_VS_4BET_SHOVE") THEN ExpectedAction("RAISE", NoFloat, "RAISE", TRUE)
    ELSE IF StartsWith(t, "3BET_VS_4BET_CALL") THEN ExpectedAction("RAISE", NoFloat, "CALL", TRUE)
    ELSE IF StartsWith(t, "3BET_VS_4BET_FOLD") THEN ExpectedAction("RAISE", NoFloat, "FOLD", TRUE)
    ELSE Plain("RAISE")

\* lines 76-98: the 3BET_VS_4BET_ family
Resolve3betVs4bet(t) ==
    CASE t = "3BET_VS_4BET_SHOVE" -> ExpectedAction("RAISE", NoFloat, "RAISE", TRUE)
      [] t = "3BET_VS_4BET_CALL" -> ExpectedAction("RAISE", NoFloat, "CALL", TRUE)
      [] t = "3BET_VS_4BET_FOLD" -> ExpectedAction("RAISE", NoFloat, "FOLD", TRUE)
      [] OTHER -> Plain("RAISE")

resolve_expected_action(tag, ctx) ==
    LET OpenSize(pos) == Get(_OR_OPEN_SIZE_BY_POSITION, pos, Num(300, 0))
        Resolve(t, pos) ==
            IF t = "FOLD" THEN Plain("FOLD")
            ELSE IF t = "OPEN_RAISE" THEN ExpectedAction("RAISE", OpenSize(pos), None, FALSE)
            ELSE IF t = "OPEN_RAISE_IF_FISH"
                 THEN (IF ctx.loose_player_exists
                       THEN ExpectedAction("RAISE", OpenSize(pos), None, FALSE)
                       ELSE Plain("FOLD"))
            ELSE IF t = "OPEN_FOLD" THEN Plain("FOLD")
            ELSE IF t = "SB_OPEN_RAISE_3BB" THEN ExpectedAction("RAISE", Num(300, 0), None, FALSE)
            ELSE IF t \in DOMAIN _SB_LIMP_THRESHOLD_BY_TAG
                 THEN ExpectedAction("LIMP", _SB_LIMP_THRESHOLD_BY_TAG[t], None, TRUE)
            ELSE IF t = "ROL_CALL" THEN Plain("CALL")
            ELSE IF t = "ROL_RAISE_4BB__BB_VS_SB"
                 THEN (IF ctx.bb_vs_sb THEN ExpectedAction("RAISE", Num(400, 0), None, FALSE)
                       ELSE Plain("CALL"))
            ELSE IF t = "ROL_CALL__VS_FISH"
                 THEN (IF ctx.loose_player_exists THEN Plain("CALL") ELSE Plain("FOLD"))
            ELSE IF t = "ROL_FOLD__NO_FISH" THEN Plain("FOLD")
            ELSE IF t = "OVERLIMP_CALL" THEN Plain("CALL")
            ELSE IF t = "OVERLIMP_CHECK__BB_VS_SB"
                 THEN (IF ctx.bb_vs_sb THEN Plain("CHECK") ELSE Plain("CALL"))
            ELSE IF StartsWith(t, "3BET_VS_4BET_") THEN Resolve3betVs4bet(t)
            ELSE IF StartsWith(t, "CALL_VS_OPEN_") THEN Plain("CALL")
            ELSE IF t = "FOLD_VS_3BET" THEN Plain("FOLD")
            ELSE IF StartsWith(t, "CALL_VS_3BET_") THEN Plain("CALL")
            ELSE IF t = "4BET_VS_5BET_FOLD" THEN Plain("FOLD")
            ELSE IF StartsWith(t, "4BET_VS_5BET_") THEN Plain("RAISE")
            ELSE IF StartsWith(t, "SHOVE_VS_") THEN Plain("RAISE")
            ELSE Plain("FOLD")
    IN  Resolve(Upper(Strip(tag)), Upper(Strip(ctx.position)))

-----------------------------------------------------------------------------
(* The repository, the judge and the resolver called directly: one call at *)
(* a time, with arguments taken from the sets below                        *)

ProbeKinds == {"OR", "or_sb", "ROL", "CC_3BET", "BB_ISO", "ZZ_UNKNOWN_KIND"}
ProbePositions == {"BTN", " btn", "CO", "SB", "BBvsSB", "EMPTY", "bb vs btn", "ZZ_UNKNOWN_POS"}
ProbeHands == {"AA", "AKs", "AKo", "72o", "QQ"}
ProbeActions == {"", "FOLD", "RAISE", "CALL", "CHECK", "LIMP_CALL", "LIMP", "CHECK_CALL",
                 "OPEN_3BB", "3BET", " raise_4bb ", "ALL_IN"}
ProbeTags == {"", "FOLD", " fold ", "UNKNOWN_TAG", "OPEN_TIGHT", "OPEN_LOOSE", "OPEN_RAISE",
              "OPEN_RAISE_IF_FISH", "OPEN_FOLD", "OPEN_3_BB", "LIMP_CALL_2_5_BB",
              "LIMPCX2.5O", "SB_OPEN_RAISE_3BB", "SB_LIMP_CALL_LE_3BB",
              "SB_LIMP_CALL_LE_2_5BB", " sb_limp_call_le_2_5bb", "SB_LIMP_CALL_LE_2_25BB",
              "SB_LIMP_CALL_LE_2BB", "ROL_ALWAYS",
              "ROL_VS_FISH", "OVERLIMP_VS_FISH", "ROL_CALL", "ROL_RAISE_4BB__BB_VS_SB",
              "ROL_CALL__VS_FISH", "OVERLIMP_CHECK__BB_VS_SB", "3BET_VS_4BET_SHOVE",
              "3BET_VS_4BET_CALL", "3BET_VS_4BET_FOLD", "3BET_VS_4BET_CALL_SITUATIONAL",
              "CALL_VS_OPEN_LE_3X", "CALL_VS_OPEN_LE_3_5X", "CALL_VS_3BET_LE_8BB",
              "FOLD_VS_3BET", "4BET_VS_5BET_FOLD", "4BET_VS_5BET_CALL", "SHOVE_VS_3BET"}
ProbeOpenSizes == {Num(200, 0), Num(250, 0), Num(300, 0)}
JudgeEntries == {"judge_or", "judge_or_sb", "judge_3bet", "judge_rol"}
RuleFunctions == {"_expected_action_or", "_expected_action_or_sb", "_expected_action_3bet",
                  "_expected_action_rol"}

\* the arguments of a call; the ones its operation does not take are left empty
Probe(op, kind, position, hand, user_action, loose, tag, bb_vs_sb, open_size_bb) ==
    [op |-> op, kind |-> kind, position |-> position, hand |-> hand,
     user_action |-> user_action, loose |-> loose, tag |-> tag, bb_vs_sb |-> bb_vs_sb,
     open_size_bb |-> open_size_bb]

\* JUEGOJudge(repo).judge_<kind>(position, hand, user_action, loose)
JudgeEntry(entry, position, hand, user_action, loose) ==
    CASE entry = "judge_or" -> judge_or(Repo, position, hand, user_action, loose)
      [] entry = "judge_or_sb" -> judge_or_sb(Repo, position, hand, user_action, loose)
      [] entry = "judge_3bet" -> judge_3bet(Repo, position, hand, user_action, loose)
      [] entry = "judge_rol" -> judge_rol(Repo, position, hand, user_action, loose)

\* the expected action one of the judge's rule functions gives
RuleFunction(rule, position, tag_upper, loose) ==
    CASE rule = "_expected_action_or" -> _expected_action_or(tag_upper, loose)
      [] rule = "_expected_action_or_sb" -> _expected_action_or_sb(tag_upper)
      [] rule = "_expected_action_3bet" -> _expected_action_3bet(tag_upper)
      [] rule = "_expected_action_rol" -> _expected_action_rol(position, tag_upper, loose)[1]

InitRules == EngineInit /\ PureIdle /\ GeneratorIdle

RepoLookup ==
    /\ call = Nothing
    /\ \E kind \in ProbeKinds, position \in ProbePositions, hand \in ProbeHands :
          /\ call' = Some(Probe("get_tag_for_hand", kind, position, hand, "", FALSE, "",
                                FALSE, NoFloat))
          /\ ret' = Some(get_tag_for_hand(Repo, kind, position, hand))
    /\ UNCHANGED <<engineVars, generatorVars>>

JudgeCall ==
    /\ call = Nothing
    /\ \E entry \in JudgeEntries, position \in ProbePositions, hand \in ProbeHands,
          user_action \in ProbeActions, loose \in BOOLEAN :
          /\ call' = Some(Probe(entry, "", position, hand, user_action, loose, "", FALSE,
                                NoFloat))
          /\ ret' = Some(JudgeEntry(entry, position, hand, user_action, loose))
    /\ UNCHANGED <<engineVars, generatorVars>>

ResolveCall ==
    /\ call = Nothing
    /\ \E tag \in ProbeTags, position \in ProbePositions, loose \in BOOLEAN,
          bb_vs_sb \in BOOLEAN, open_size_bb \in ProbeOpenSizes :
          /\ call' = Some(Probe("resolve_expected_action", "", position, "", "", loose, tag,
                                bb_vs_sb, open_size_bb))
          /\ ret' = Some(resolve_expected_action(
                             tag, ProblemContext(position, loose, bb_vs_sb, open_size_bb)))
    /\ UNCHANGED <<engineVars, generatorVars>>

RuleCall ==
    /\ call = Nothing
    /\ \E rule \in RuleFunctions, tag \in ProbeTags, position \in ProbePositions,
          loose \in BOOLEAN :
          /\ call' = Some(Probe(rule, "", position, "", "", loose, tag, FALSE, NoFloat))
          /\ ret' = Some(RuleFunction(rule, position, tag, loose))
    /\ UNCHANGED <<engineVars, generatorVars>>

Return ==
    /\ call # Nothing
    /\ call' = Nothing
    /\ ret' = Nothing
    /\ UNCHANGED <<engineVars, generatorVars>>

ProbeLimpers == {0, 2}

\* JUEGOJudge(repo).judge_bb_iso(position, hand, user_action, limpers, loose)
JudgeBbIsoCall ==
    /\ call = Nothing
    /\ \E position \in ProbePositions, hand \in ProbeHands, user_action \in ProbeActions,
          limpers \in ProbeLimpers, loose \in BOOLEAN :
          /\ call' = Some(Probe("judge_bb_iso", "", position, hand, user_action, loose, "",
                                FALSE, NoFloat) @@ [limpers |-> limpers])
          /\ ret' = Some(judge_bb_iso(Repo, position, hand, user_action, limpers, loose))
    /\ UNCHANGED <<engineVars, generatorVars>>

NextRules == RepoLookup \/ JudgeCall \/ JudgeBbIsoCall \/ ResolveCall \/ RuleCall \/ Return

SpecRules == InitRules /\ [][NextRules]_vars

-----------------------------------------------------------------------------
(* core/handgrid.py *)

RANKS == "AKQJT98765432"

RankChars == {CharAt(RANKS, i) : i \in 1..Len(RANKS)}

\* RANKS.index(r), 0-based, for the characters of RANKS
RankIndex == [r \in RankChars |-> IndexIn(RANKS, r) - 1]

\* RANKS[i] for a 0-based index
RankAt(i) == CharAt(RANKS, i + 1)

\* a faulty lookup: str.find instead of a raise, so an unknown rank has index -1
_idxFind(r) ==
    LET Index(u) == IF u \in RankChars THEN Returned(RankIndex[u]) ELSE Returned(-1)
    IN  Index(UpperChar(r))

_idx(r) ==
    LET Index(u) == IF u \in RankChars THEN Returned(RankIndex[u]) ELSE Raised("ValueError")
    IN  Index(UpperChar(r))

Min(a, b) == IF a < b THEN a ELSE b
Max(a, b) == IF a < b THEN b ELSE a

\* a faulty parse: the ranks taken in the order they are written, not as hi and lo
hand_key_to_rcAsWritten(hand_key) ==
    LET NonPair(i1, i2, t) ==
            IF i1.raised THEN i1
            ELSE IF i2.raised THEN i2
            ELSE IF i1.result[1] = i2.result[1] THEN Raised("ValueError")
            ELSE IF t = "S" THEN Returned(<<i1.result[1], i2.result[1]>>)
            ELSE IF t = "O" THEN Returned(<<i2.result[1], i1.result[1]>>)
            ELSE Raised("ValueError")
        Pair(i) == IF i.raised THEN i ELSE Returned(<<i.result[1], i.result[1]>>)
        Parse(hk) ==
            IF Len(hk) = 2
            THEN (IF CharAt(hk, 1) # CharAt(hk, 2) THEN Raised("ValueError")
                  ELSE Pair(_idx(CharAt(hk, 1))))
            ELSE IF Len(hk) # 3 THEN Raised("ValueError")
            ELSE NonPair(_idx(CharAt(hk, 1)), _idx(CharAt(hk, 2)), CharAt(hk, 3))
    IN  Parse(Upper(Strip(hand_key)))

\* returns (row, col), 0-based, or raises ValueError
hand_key_to_rc(hand_key) ==
    LET \* lines 32-44: a key of three characters
        NonPair(i1, i2, t) ==
            IF i1.raised THEN i1
            ELSE IF i2.raised THEN i2
            ELSE IF i1.result[1] = i2.result[1] THEN Raised("ValueError")
            ELSE IF t = "S"
                 THEN Returned(<<Min(i1.result[1], i2.result[1]), Max(i1.result[1], i2.result[1])>>)
            ELSE IF t = "O"
                 THEN Returned(<<Max(i1.result[1], i2.result[1]), Min(i1.result[1], i2.result[1])>>)
            ELSE Raised("ValueError")
        \* lines 23-27: a key of two characters
        Pair(i) == IF i.raised THEN i ELSE Returned(<<i.result[1], i.result[1]>>)
        Parse(hk) ==
            IF Len(hk) = 2
            THEN (IF CharAt(hk, 1) # CharAt(hk, 2) THEN Raised("ValueError")
                  ELSE Pair(_idx(CharAt(hk, 1))))
            ELSE IF Len(hk) # 3 THEN Raised("ValueError")
            ELSE NonPair(_idx(CharAt(hk, 1)), _idx(CharAt(hk, 2)), CharAt(hk, 3))
    IN  Parse(Upper(Strip(hand_key)))

\* a faulty labelling: the two triangles exchanged
rc_to_hand_keyMirrored(r, c) ==
    IF ~(0 <= r /\ r < 13 /\ 0 <= c /\ c < 13) THEN Raised("ValueError")
    ELSE IF r = c THEN Returned(RankAt(r) \o RankAt(r))
    ELSE Returned(RankAt(Min(r, c)) \o RankAt(Max(r, c)) \o (IF r > c THEN "S" ELSE "O"))

rc_to_hand_key(r, c) ==
    IF ~(0 <= r /\ r < 13 /\ 0 <= c /\ c < 13) THEN Raised("ValueError")
    ELSE IF r = c THEN Returned(RankAt(r) \o RankAt(r))
    ELSE Returned(RankAt(Min(r, c)) \o RankAt(Max(r, c)) \o (IF r < c THEN "S" ELSE "O"))

-----------------------------------------------------------------------------
(* Two hole cards -> hand key: JsonRangeRepository._cards_to_hand_key and   *)
(* JuegoProblemGenerator.to_hand_key                                        *)

\* a faulty conversion: the ranks kept in the order the cards came in
_cards_to_hand_keyUnordered(c1, c2) ==
    LET Key(r1, s1, r2, s2) ==
            IF r1 = r2 THEN Returned(r1 \o r2)
            ELSE IF r1 \notin RankChars \/ r2 \notin RankChars THEN Raised("ValueError")
            ELSE Returned(r1 \o r2 \o (IF s1 = s2 THEN "S" ELSE "O"))
    IN  IF Len(Strip(c1)) # 2 \/ Len(Strip(c2)) # 2 THEN Raised("ValueError")
        ELSE Key(UpperChar(CharAt(Strip(c1), 1)), LowerChar(CharAt(Strip(c1), 2)),
                 UpperChar(CharAt(Strip(c2), 1)), LowerChar(CharAt(Strip(c2), 2)))

_cards_to_hand_key(c1, c2) ==
    LET \* lines 269-284
        Key(r1, s1, r2, s2) ==
            IF r1 = r2 THEN Returned(r1 \o r2)
            ELSE IF r1 \notin RankChars \/ r2 \notin RankChars THEN Raised("ValueError")
            ELSE Returned((IF RankIndex[r1] < RankIndex[r2] THEN r1 \o r2 ELSE r2 \o r1)
                          \o (IF s1 = s2 THEN "S" ELSE "O"))
        Checked(a, b) ==
            IF Len(a) # 2 \/ Len(b) # 2 THEN Raised("ValueError")
            ELSE Key(UpperChar(CharAt(a, 1)), LowerChar(CharAt(a, 2)),
                     UpperChar(CharAt(b, 1)), LowerChar(CharAt(b, 2)))
        \* lines 262-264: both cards in the first argument ("KsJc")
        Split(a, b) ==
            IF Len(a) = 4 /\ Len(b) = 0 THEN Checked(SubSeq(a, 1, 2), SubSeq(a, 3, 4))
            ELSE Checked(a, b)
    IN  Split(Strip(c1), Strip(c2))

to_hand_key(c1, c2) ==
    LET Key(r1, s1, r2, s2) ==
            IF r1 = r2 THEN Returned(r1 \o r2)
            ELSE Returned(r1 \o r2 \o (IF s1 = s2 THEN "s" ELSE "o"))
        \* lines 392-394: the stronger rank first, the suits swapped along
        Ordered(r1, s1, r2, s2) ==
            IF r1 \notin RankChars \/ r2 \notin RankChars THEN Raised("ValueError")
            ELSE IF RankIndex[r1] > RankIndex[r2] THEN Key(r2, s2, r1, s1)
            ELSE Key(r1, s1, r2, s2)
    IN  IF Len(c1) < 2 \/ Len(c2) < 2 THEN Raised("IndexError")
        ELSE Ordered(UpperChar(CharAt(c1, 1)), LowerChar(CharAt(c1, 2)),
                     UpperChar(CharAt(c2, 1)), LowerChar(CharAt(c2, 2)))

-----------------------------------------------------------------------------
(* The grid and the card conversions called directly, one call at a time *)

\* hand keys in either rank order, with every suffix, and strings that are no keys
GridHandKeys ==
    {r1 \o r2 \o t : r1 \in RankChars, r2 \in RankChars, t \in {"", "S", "O", "s", "o", "X"}}
    \cup {"", "A", "AKSO", "aks", "kao", "aa", " AA ", "AKs ", " k a s", "XX", "XKS", "AXO",
          "1AS", "A S", "A "}

GridIndexes == -1..13

_SUITS == {"s", "h", "d", "c"}

\* the deck of the generator, and cards in other writings
Deck == {r \o su : r \in RankChars, su \in _SUITS}
GridCards == Deck \cup {"", "KsJc", "kS", " Ks ", "Xs", "A"}

ConversionFunctions == {"_cards_to_hand_key", "to_hand_key"}

CardsToKey(f, c1, c2) ==
    IF f = "_cards_to_hand_key" THEN _cards_to_hand_key(c1, c2) ELSE to_hand_key(c1, c2)

HandKeyToRc ==
    /\ call = Nothing
    /\ \E hand_key \in GridHandKeys :
          /\ call' = Some([op |-> "hand_key_to_rc", hand_key |-> hand_key])
          /\ ret' = Some(hand_key_to_rc(hand_key))
    /\ UNCHANGED <<engineVars, generatorVars>>

RcToHandKey ==
    /\ call = Nothing
    /\ \E r \in GridIndexes, c \in GridIndexes :
          /\ call' = Some([op |-> "rc_to_hand_key", r |-> r, c |-> c])
          /\ ret' = Some(rc_to_hand_key(r, c))
    /\ UNCHANGED <<engineVars, generatorVars>>

CardsToHandKey ==
    /\ call = Nothing
    /\ \E f \in ConversionFunctions, c1 \in GridCards, c2 \in GridCards :
          /\ call' = Some([op |-> f, c1 |-> c1, c2 |-> c2])
          /\ ret' = Some(CardsToKey(f, c1, c2))
    /\ UNCHANGED <<engineVars, generatorVars>>

NextGrid == HandKeyToRc \/ RcToHandKey \/ CardsToHandKey \/ Return

SpecGrid == InitRules /\ [][NextGrid]_vars

-----------------------------------------------------------------------------
(* JsonRangeRepository: ranges_pack.json and the grid view of the popup *)

\* lines 138-141: tags[kind][position][hand] of the pack
RECURSIVE LoadPackHands(_, _)
LoadPackHands(hands, acc) ==
    IF hands = << >> THEN acc
    ELSE LoadPackHands(Tail(hands),
                       DictSet(acc, Upper(Strip(Head(hands)[1])), Strip(Head(hands)[2])))

RECURSIVE LoadPackPositions(_, _)
LoadPackPositions(positions, acc) ==
    IF positions = << >> THEN acc
    ELSE LoadPackPositions(Tail(positions),
                           DictSet(acc, Upper(Strip(Head(positions)[1])),
                                   LoadPackHands(Head(positions)[2], EmptyDict)))

RECURSIVE LoadPackTags(_, _)
LoadPackTags(kinds, acc) ==
    IF kinds = << >> THEN acc
    ELSE LoadPackTags(Tail(kinds),
                      DictSet(acc, Upper(Strip(Head(kinds)[1])),
                              LoadPackPositions(Head(kinds)[2], EmptyDict)))

\* lines 125-131: legend_by_kind[kind][tag] -> rgb or None
RECURSIVE LoadLegendTags(_, _)
LoadLegendTags(tags, acc) ==
    IF tags = << >> THEN acc
    ELSE LoadLegendTags(Tail(tags),
                        DictSet(acc, Strip(Head(tags)[1]),
                                IF Head(tags)[2] = None THEN None
                                ELSE Upper(Strip(Head(tags)[2]))))

RECURSIVE LoadLegend(_, _)
LoadLegend(kinds, acc) ==
    IF kinds = << >> THEN acc
    ELSE LoadLegend(Tail(kinds),
                    DictSet(acc, Upper(Strip(Head(kinds)[1])),
                            LoadLegendTags(Head(kinds)[2], EmptyDict)))

\* lines 110-141: the fields __init__ fills from the pack
LoadPack(pack) ==
    [_pack_sheet |-> pack.sheet,
     _default_tag |-> IF Strip(pack.default_tag) = "" THEN "FOLD" ELSE Strip(pack.default_tag),
     _legend_by_kind |-> LoadLegend(pack.legend_by_kind, EmptyDict),
     _tags_by_kind |-> LoadPackTags(pack.tags, EmptyDict)]

RangeCellView(label, bg_rgb) == [label |-> label, bg_rgb |-> bg_rgb]

RangeGridView(kind, pos, sheet_name, cells) ==
    [kind |-> kind, pos |-> pos, sheet_name |-> sheet_name, cells |-> cells]

\* the grid view without the default tag: a cell without a tag has no colour
get_range_grid_viewUntagged(repo, loaded, kind, pos, size) ==
    LET \* lines 214-223: one cell
        Coloured(hk, tag, legend) ==
            RangeCellView(IF Len(hk) = 2 THEN hk ELSE SubSeq(hk, 1, 2),
                          IF Get(legend, tag, None) \in {None, ""} THEN "FFFFFF"
                          ELSE Upper(legend[tag]))
        Tagged(hk, tag0, legend) ==
            Coloured(hk, Strip(tag0), legend)
        Cell(hk, tag_map, legend) ==
            Tagged(hk, Get(tag_map, hk, ""), legend)
        Cells(tag_map, legend) ==
            [r \in 1..size |->
                [c \in 1..size |-> Cell(rc_to_hand_key(r - 1, c - 1).result[1], tag_map, legend)]]
        View(k, p) ==
            IF ~NonEmpty(loaded._legend_by_kind) \/ ~NonEmpty(loaded._tags_by_kind)
            THEN Raised("RuntimeError")
            ELSE IF ~(Has(loaded._tags_by_kind, k) /\ Has(loaded._tags_by_kind[k], p))
            THEN Raised("KeyError")
            ELSE IF size > 13 THEN Raised("ValueError")
            ELSE Returned(RangeGridView(
                     k, p, IF loaded._pack_sheet = "" THEN "Datasheet" ELSE loaded._pack_sheet,
                     Cells(loaded._tags_by_kind[k][p], Get(loaded._legend_by_kind, k, EmptyDict))))
        Located(k, p_in) == View(k, _resolve_position(repo, k, p_in))
    IN  Located(Upper(Strip(kind)), Upper(Strip(pos)))

\* returns a RangeGridView or raises; loaded is LoadPack of the pack
get_range_grid_view(repo, loaded, kind, pos, size) ==
    LET \* lines 214-223: one cell
        Coloured(hk, tag, legend) ==
            RangeCellView(IF Len(hk) = 2 THEN hk ELSE SubSeq(hk, 1, 2),
                          IF Get(legend, tag, None) \in {None, ""} THEN "FFFFFF"
                          ELSE Upper(legend[tag]))
        Tagged(hk, tag0, legend) ==
            Coloured(hk, IF Strip(tag0) = "" THEN loaded._default_tag ELSE Strip(tag0), legend)
        Cell(hk, tag_map, legend) ==
            Tagged(hk, IF Get(tag_map, hk, "") = "" THEN loaded._default_tag ELSE tag_map[hk],
                   legend)
        Cells(tag_map, legend) ==
            [r \in 1..size |->
                [c \in 1..size |-> Cell(rc_to_hand_key(r - 1, c - 1).result[1], tag_map, legend)]]
        View(k, p) ==
            IF ~NonEmpty(loaded._legend_by_kind) \/ ~NonEmpty(loaded._tags_by_kind)
            THEN Raised("RuntimeError")
            ELSE IF ~(Has(loaded._tags_by_kind, k) /\ Has(loaded._tags_by_kind[k], p))
            THEN Raised("KeyError")
            ELSE IF size > 13 THEN Raised("ValueError")
            ELSE Returned(RangeGridView(
                     k, p, IF loaded._pack_sheet = "" THEN "Datasheet" ELSE loaded._pack_sheet,
                     Cells(loaded._tags_by_kind[k][p], Get(loaded._legend_by_kind, k, EmptyDict))))
        Located(k, p_in) == View(k, _resolve_position(repo, k, p_in))
    IN  Located(Upper(Strip(kind)), Upper(Strip(pos)))

-----------------------------------------------------------------------------
(* Repositories over documents that declare their positions in different   *)
(* spellings, called directly, one call at a time                           *)

\* one hand per position, with a tag that tells the positions apart
PlainRanges ==
    << <<"ROL", << <<"BB_VS_SB", << <<"AA", "ROL_ALWAYS">> >> >>,
                   <<"BTN", << <<"AA", "ROL_VS_FISH">> >> >>,
                   <<"bb oop", << <<"AA", "OVERLIMP_VS_FISH">> >> >> >> >>,
       <<"CC_3BET", << <<"BB VS SB", << <<"AA", "3BET_VS_4BET_SHOVE">> >> >> >> >> >>

\* two declared positions of one kind with the same sanitized alias, in both orders
AliasLateRanges ==
    << <<"ROL", << <<"BBOOP", << <<"AA", "ROL_ALWAYS">> >> >>,
                   <<"BB_OOP", << <<"AA", "ROL_VS_FISH">> >> >> >> >> >>
AliasEarlyRanges ==
    << <<"ROL", << <<"BB_OOP", << <<"AA", "ROL_ALWAYS">> >> >>,
                   <<"BBOOP", << <<"AA", "ROL_VS_FISH">> >> >> >> >> >>

\* a hand-written document in the manner of the tests: lower-case hand key, a tag the
\* legend does not list, an explicit FOLD, and the other hands left out
SparseRanges ==
    << <<"ROL", << <<"CO", << <<"AA", "ROL_ALWAYS">>, <<"aks", "UNLISTED_TAG">>,
                              <<"AKO", "FOLD">> >> >> >> >> >>

\* the data directories: final_tags.json, and the ranges_pack.json next to it
PositionDocuments ==
    [name \in {"plain", "alias_late", "alias_early", "sparse", "grey_fold",
               "partial_legend", "no_legend", "no_pack"} |->
        CASE name \in {"plain", "partial_legend", "no_legend", "no_pack"} -> PlainRanges
          [] name = "alias_late" -> AliasLateRanges
          [] name = "alias_early" -> AliasEarlyRanges
          [] OTHER -> SparseRanges]

\* config.REF_COLOR_CELLS: the legend colour of each tag
LegendByKind ==
    << <<"ROL", << <<"ROL_ALWAYS", "9fc5e8">>, <<"ROL_VS_FISH", "f4cccc">>,
                   <<"OVERLIMP_VS_FISH", "d9ead3">> >> >>,
       <<"CC_3BET", << <<"3BET_VS_4BET_SHOVE", "660000">> >> >> >>

\* the pack written next to a document: the same tags, and the legend
RangesPack(ranges) ==
    [sheet |-> "Datasheet", default_tag |-> "FOLD", legend_by_kind |-> LegendByKind,
     tags |-> ranges]

\* tools/build_final_tags_json.py, lines 66-87: the legend of a build, FOLD without colour
BuiltLegend ==
    << <<"ROL", << <<"ROL_ALWAYS", "9fc5e8">>, <<"ROL_VS_FISH", "f4cccc">>,
                   <<"OVERLIMP_VS_FISH", "d9ead3">>, <<"FOLD", None>> >> >>,
       <<"CC_3BET", << <<"3BET_VS_4BET_SHOVE", "660000">>, <<"FOLD", None>> >> >> >>

\* a legend that gives the default tag a colour
GreyFoldLegend ==
    << <<"ROL", << <<"ROL_ALWAYS", "9fc5e8">>, <<"FOLD", "cccccc">> >> >> >>

\* a legend that lists one of the kinds of the tags only
PartialLegend ==
    << <<"ROL", << <<"ROL_ALWAYS", "9fc5e8">>, <<"ROL_VS_FISH", "f4cccc">>,
                   <<"OVERLIMP_VS_FISH", "d9ead3">> >> >> >>

\* lines 110-114: the fields as they are left when there is no pack file
NoPack == [sheet |-> "", default_tag |-> "", legend_by_kind |-> << >>, tags |-> << >>]

PositionPacks ==
    [name \in DOMAIN PositionDocuments |->
        CASE name = "sparse" ->
                [RangesPack(SparseRanges) EXCEPT !.legend_by_kind = BuiltLegend]
          [] name = "grey_fold" ->
                [RangesPack(SparseRanges) EXCEPT !.legend_by_kind = GreyFoldLegend]
          [] name = "partial_legend" ->
                [RangesPack(PlainRanges) EXCEPT !.legend_by_kind = PartialLegend]
          [] name = "no_legend" ->
                [RangesPack(PlainRanges) EXCEPT !.legend_by_kind = << >>]
          [] name = "no_pack" -> NoPack
          [] OTHER -> RangesPack(PositionDocuments[name])]

PositionKinds == {"ROL", " rol ", "CC_3BET", "ZZ_UNKNOWN_KIND"}
PositionSpellings ==
    {"BB_VS_SB", "bb vs sb", "BB-VS-SB", "BBvsSB", " bb_vs_sb ", "BB VS SB", "BTN", "btn",
     "B.T.N", "BBOOP", "BB_OOP", "bb oop", "BB-OOP", "BB OOP", "CO", "BB_VS_BTN", "SB", ""}
PositionHands == {"AA", "AKs"}
GridSizes == {1, 2}

PositionCall(op, doc, kind, position, hand, size) ==
    [op |-> op, doc |-> doc, kind |-> kind, position |-> position, hand |-> hand,
     size |-> size]

ResolvePosition ==
    /\ call = Nothing
    /\ \E doc \in DOMAIN PositionDocuments, kind \in PositionKinds,
          position \in PositionSpellings :
          /\ call' = Some(PositionCall("_resolve_position", doc, kind, position, "", 0))
          /\ ret' = Some(_resolve_position(JsonRangeRepository(PositionDocuments[doc]),
                                           kind, position))
    /\ UNCHANGED <<engineVars, generatorVars>>

LookupTag ==
    /\ call = Nothing
    /\ \E doc \in DOMAIN PositionDocuments, kind \in PositionKinds,
          position \in PositionSpellings, hand \in PositionHands :
          /\ call' = Some(PositionCall("get_tag_for_hand", doc, kind, position, hand, 0))
          /\ ret' = Some(get_tag_for_hand(JsonRangeRepository(PositionDocuments[doc]),
                                          kind, position, hand))
    /\ UNCHANGED <<engineVars, generatorVars>>

GridView ==
    /\ call = Nothing
    /\ \E doc \in DOMAIN PositionDocuments, kind \in PositionKinds,
          position \in PositionSpellings, size \in GridSizes :
          /\ call' = Some(PositionCall("get_range_grid_view", doc, kind, position, "", size))
          /\ ret' = Some(get_range_grid_view(
                             JsonRangeRepository(PositionDocuments[doc]),
                             LoadPack(PositionPacks[doc]),
                             kind, position, size))
    /\ UNCHANGED <<engineVars, generatorVars>>

NextPositions == ResolvePosition \/ LookupTag \/ GridView \/ Return

SpecPositions == InitRules /\ [][NextPositions]_vars

-----------------------------------------------------------------------------
(* JsonRangeRepository.__init__ over the file final_tags.json                *)

\* JSON values: an object keeps its members as a sequence of <<key, value>>
JObject(members) == [type |-> "object", members |-> members]
JArray(items) == [type |-> "array", items |-> items]
JString(s) == [type |-> "string", text |-> s]
JNumber(n) == [type |-> "number", number |-> n]
JNull == [type |-> "null"]

\* isinstance(v, dict)
IsDict(v) == v.type = "object"

\* d.get(key): a missing key reads as None
RECURSIVE JGet(_, _)
JGet(members, key) ==
    IF members = << >> THEN JNull
    ELSE IF Head(members)[1] = key THEN Head(members)[2]
    ELSE JGet(Tail(members), key)

\* the file: absent, not JSON, or a JSON value
AbsentFile == [exists |-> FALSE, parses |-> FALSE, root |-> JNull]
BrokenFile == [exists |-> TRUE, parses |-> FALSE, root |-> JNull]
JsonFile(root) == [exists |-> TRUE, parses |-> TRUE, root |-> root]

\* the document of the schema tests, with the hands of a second position
SchemaTestRanges ==
    JObject(<< <<"OR", JObject(<< <<"CO", JObject(<< <<"AKO", JString("RAISE")>> >>)>>,
                                  <<"btn", JObject(<< <<"aks", JString("RAISE")>>,
                                                      <<"72O", JString("FOLD")>> >>)>> >>)>> >>)

\* a kind and a position whose value is no object
KindNotObjectRanges ==
    JObject(<< <<"OR", JObject(<< <<"CO", JObject(<< <<"AKO", JString("RAISE")>> >>)>> >>)>>,
               <<"ROL", JString("see sheet 2")>> >>)
PositionNotObjectRanges ==
    JObject(<< <<"OR", JObject(<< <<"CO", JObject(<< <<"AKO", JString("RAISE")>> >>)>>,
                                  <<"BTN", JNull>> >>)>> >>)

Meta(version) == JObject(<< <<"schema_version", version>> >>)

Files ==
    [name \in {"absent", "not_json", "array_root", "string_root", "no_ranges", "ranges_array",
               "ranges_null", "empty_ranges", "kind_not_object", "position_not_object",
               "version_1", "version_999", "version_missing", "no_meta"} |->
        CASE name = "absent" -> AbsentFile
          [] name = "not_json" -> BrokenFile
          [] name = "array_root" -> JsonFile(JArray(<< SchemaTestRanges >>))
          [] name = "string_root" -> JsonFile(JString("ranges"))
          [] name = "no_ranges" -> JsonFile(JObject(<< <<"meta", JObject(<< >>)>> >>))
          [] name = "ranges_array" ->
                JsonFile(JObject(<< <<"meta", JObject(<< >>)>>,
                                    <<"ranges", JArray(<< SchemaTestRanges >>)>> >>))
          [] name = "ranges_null" -> JsonFile(JObject(<< <<"ranges", JNull>> >>))
          [] name = "empty_ranges" -> JsonFile(JObject(<< <<"ranges", JObject(<< >>)>> >>))
          [] name = "kind_not_object" ->
                JsonFile(JObject(<< <<"meta", JObject(<< >>)>>,
                                    <<"ranges", KindNotObjectRanges>> >>))
          [] name = "position_not_object" ->
                JsonFile(JObject(<< <<"meta", JObject(<< >>)>>,
                                    <<"ranges", PositionNotObjectRanges>> >>))
          [] name = "version_1" ->
                JsonFile(JObject(<< <<"meta", Meta(JNumber(1))>>,
                                    <<"ranges", SchemaTestRanges>> >>))
          [] name = "version_999" ->
                JsonFile(JObject(<< <<"meta", Meta(JNumber(999))>>,
                                    <<"ranges", SchemaTestRanges>> >>))
          [] name = "version_missing" ->
                JsonFile(JObject(<< <<"meta", JObject(<< >>)>>,
                                    <<"ranges", SchemaTestRanges>> >>))
          [] OTHER -> JsonFile(JObject(<< <<"ranges", SchemaTestRanges>> >>))]

\* `if not isinstance(x, dict): continue` of the kind and position loops
RECURSIVE DictMembers(_)
DictMembers(members) ==
    IF members = << >> THEN << >>
    ELSE (IF IsDict(Head(members)[2]) THEN << Head(members) >> ELSE << >>)
         \o DictMembers(Tail(members))

\* str(tag)
PyStr(v) == IF v.type = "string" THEN v.text ELSE "None"

\* the members the three loops of __init__ load, as a range document
LoadableHands(hand_map) ==
    [i \in 1..Len(hand_map.members) |->
        << hand_map.members[i][1], PyStr(hand_map.members[i][2]) >>]
LoadablePositions(pos_map) ==
    LET Kept_(ms) == [i \in 1..Len(ms) |-> << ms[i][1], LoadableHands(ms[i][2]) >>]
    IN  Kept_(DictMembers(pos_map.members))
LoadableKinds(ranges) ==
    LET Kept_(ms) == [i \in 1..Len(ms) |-> << ms[i][1], LoadablePositions(ms[i][2]) >>]
    IN  Kept_(DictMembers(ranges.members))

\* lines 53-103: the repository, or the exception that ends the construction
JsonRangeRepositoryFromFile(file) ==
    LET Ranges(ranges) ==
            IF ~IsDict(ranges)
            THEN Raised("ValueError: final_tags.json: 'ranges' must be a dict")
            ELSE Returned(JsonRangeRepository(LoadableKinds(ranges)))
    IN  IF ~file.exists THEN Raised("SystemExit: [FATAL] final_tags.json not found.")
        ELSE IF ~file.parses THEN Raised("JSONDecodeError")
        ELSE IF ~IsDict(file.root)
        THEN Raised("ValueError: final_tags.json must be an object with keys: meta, ranges")
        ELSE Ranges(JGet(file.root.members, "ranges"))

FileKinds == {"OR", "or", "ROL"}
FilePositions == {"CO", "co", "BTN", "SB"}
FileHands == {"AKO", "AKo", "aks", "72o", "AA"}

Construct ==
    /\ call = Nothing
    /\ \E file \in DOMAIN Files :
          /\ call' = Some(PositionCall("__init__", file, "", "", "", 0))
          /\ ret' = Some(JsonRangeRepositoryFromFile(Files[file]))
    /\ UNCHANGED <<engineVars, generatorVars>>

\* JsonRangeRepository(path).get_tag_for_hand(kind, position, hand)
LookupInFile ==
    /\ call = Nothing
    /\ \E file \in DOMAIN Files, kind \in FileKinds, position \in FilePositions,
          hand \in FileHands :
          /\ call' = Some(PositionCall("get_tag_for_hand", file, kind, position, hand, 0))
          /\ \E made \in {JsonRangeRepositoryFromFile(Files[file])} :
                ret' = Some(IF made.raised THEN made
                            ELSE Returned(get_tag_for_hand(made.result[1], kind, position,
                                                           hand)))
    /\ UNCHANGED <<engineVars, generatorVars>>

\* JsonRangeRepository(path).list_positions(kind)
ListInFile ==
    /\ call = Nothing
    /\ \E file \in DOMAIN Files, kind \in FileKinds :
          /\ call' = Some(PositionCall("list_positions", file, kind, "", "", 0))
          /\ \E made \in {JsonRangeRepositoryFromFile(Files[file])} :
                ret' = Some(IF made.raised THEN made
                            ELSE Returned(list_positions(made.result[1], kind)))
    /\ UNCHANGED <<engineVars, generatorVars>>

NextFiles == Construct \/ LookupInFile \/ ListInFile \/ Return

SpecFiles == InitRules /\ [][NextFiles]_vars

-----------------------------------------------------------------------------
(* The progress database (core/progress_store.py), the weakness report      *)
(* (core/stats.py) and the kind choice of JuegoProblemGenerator              *)

\* the table holds at most this many attempts
MaxAttempts == 4

\* the configuration read by the generator
ENABLE_WEAKNESS_WEIGHTING == TRUE
WEAKNESS_RECENT_N == 3
WEAKNESS_RECENT_MIN_ATTEMPTS == 2
WEAKNESS_RECENT_TOP_K == 1
WEAKNESS_KIND_BOOST == Num(200, 0)
WEAKNESS_KIND_FLOOR == Num(80, 0)

\* the columns of an attempt that the weakness report reads
AttemptRow(id, kind, is_correct) == [id |-> id, kind |-> kind, is_correct |-> is_correct]

\* ProgressStore.append_attempt: the rows after the INSERT (AUTOINCREMENT id), or the
\* exception; a record without a required key is refused before the database is opened
append_attempt(table, record) ==
    IF ~({"kind", "is_correct"} \subseteq DOMAIN record)
    THEN Raised("ValueError: append_attempt missing required keys")
    ELSE IF table = Nothing THEN Raised("sqlite3.OperationalError: no such table: attempts")
    ELSE Returned(Append(table[1],
                         AttemptRow(Len(table[1]) + 1, record.kind, record.is_correct)))

\* SELECT COALESCE(MAX(id), 0) FROM attempts
MaxId(rows) == IF rows = << >> THEN 0 ELSE rows[Len(rows)].id

\* SELECT ... FROM attempts ORDER BY id DESC LIMIT n
RecentRows(rows, n) == SubSeq(rows, Max(1, Len(rows) - n + 1), Len(rows))

\* COUNT(*) and SUM(is_correct) of a group
GroupCount(rows, kind) == Cardinality({i \in 1..Len(rows) : rows[i].kind = kind})
GroupCorrect(rows, kind) ==
    Cardinality({i \in 1..Len(rows) : rows[i].kind = kind /\ rows[i].is_correct = 1})

\* ORDER BY accuracy ASC, COUNT(*) DESC; groups that tie keep the order of GROUP BY
RowBefore(rows, a, b) ==
    LET Less(ca, na, cb, nb) ==
            \/ ca * nb < cb * na
            \/ ca * nb = cb * na /\ na > nb
            \/ ca * nb = cb * na /\ na = nb /\ a # b
               /\ \E i \in 1..Len(a) :
                     /\ SubSeq(a, 1, i - 1) = SubSeq(b, 1, Min(i - 1, Len(b)))
                     /\ (i > Len(b) \/ IndexIn(UpperAlpha, CharAt(a, i))
                                        < IndexIn(UpperAlpha, CharAt(b, i)))
    IN  Less(GroupCorrect(rows, a), GroupCount(rows, a),
             GroupCorrect(rows, b), GroupCount(rows, b))

\* compute_weakness_report(scope="recent").weak_kinds, as the set of their keys
compute_weakness_report(rows, recent_n, min_attempts, top_k) ==
    LET Ranked(groups) ==
            {k \in groups :
                Cardinality({j \in groups : RowBefore(RecentRows(rows, Max(1, recent_n)), j, k)})
                    < Max(1, top_k)}
        Having(recent) ==
            Ranked({k \in {recent[i].kind : i \in 1..Len(recent)} :
                       GroupCount(recent, k) >= Max(1, min_attempts)})
    IN  Having(RecentRows(rows, Max(1, recent_n)))

\* lines 187-198: the weak kinds of the bundle's recent report, normalised
FreshWeakKinds(rows) ==
    {Upper(Strip(key)) :
        key \in {k \in compute_weakness_report(rows, WEAKNESS_RECENT_N,
                                               WEAKNESS_RECENT_MIN_ATTEMPTS,
                                               WEAKNESS_RECENT_TOP_K) : Strip(k) # ""}}

\* JuegoProblemGenerator.__init__: the fields the kind choice uses
JuegoProblemGenerator(progress_db_path) ==
    [_progress_db_path |-> progress_db_path, _weak_kinds_cache |-> {},
     _weak_cache_last_id |-> Nothing]

\* what _get_cached_weak_kinds returns, and the generator after it
WeakKinds(weak_kinds, gen, reused) == [weak_kinds |-> weak_kinds, generator |-> gen, reused |-> reused]

\* a cache that is kept once it is filled
_get_cached_weak_kindsOnce(gen, table) ==
    IF ~ENABLE_WEAKNESS_WEIGHTING \/ gen._progress_db_path = None \/ table = Nothing
    THEN WeakKinds({}, gen, FALSE)
    ELSE IF gen._weak_cache_last_id # Nothing THEN WeakKinds(gen._weak_kinds_cache, gen, TRUE)
    ELSE WeakKinds(FreshWeakKinds(table[1]),
                   [gen EXCEPT !._weak_cache_last_id = Some(MaxId(table[1])),
                               !._weak_kinds_cache = FreshWeakKinds(table[1])], FALSE)
_get_cached_weak_kinds(gen, table) ==
    LET Cached(latest_id) ==
            IF gen._weak_cache_last_id = Some(latest_id)
            THEN WeakKinds(gen._weak_kinds_cache, gen, TRUE)
            ELSE IF latest_id = 0
            THEN WeakKinds({}, [gen EXCEPT !._weak_cache_last_id = Some(latest_id),
                                           !._weak_kinds_cache = {}], FALSE)
            ELSE WeakKinds(FreshWeakKinds(table[1]),
                           [gen EXCEPT !._weak_cache_last_id = Some(latest_id),
                                       !._weak_kinds_cache = FreshWeakKinds(table[1])], FALSE)
    IN  IF ~ENABLE_WEAKNESS_WEIGHTING THEN WeakKinds({}, gen, FALSE)
        ELSE IF gen._progress_db_path = None THEN WeakKinds({}, gen, FALSE)
        \* sqlite3.Error: the file has no table `attempts`
        ELSE IF table = Nothing THEN WeakKinds({}, gen, FALSE)
        ELSE Cached(MaxId(table[1]))

_kind_to_problem_type(kind) ==
    CASE kind = "OR" -> "JUEGO_OR"
      [] kind = "OR_SB" -> "JUEGO_OR_SB"
      [] kind \in {"3BET", "CC_3BET"} -> "JUEGO_3BET"
      [] kind = "ROL" -> "JUEGO_ROL"
      [] OTHER -> "JUEGO_OR"

\* [str(k).strip().upper() for k in selected_kinds if str(k).strip()]
RECURSIVE NormalizedKinds(_)
NormalizedKinds(selected_kinds) ==
    IF selected_kinds = << >> THEN << >>
    ELSE (IF Strip(Head(selected_kinds)) = "" THEN << >>
          ELSE << Upper(Strip(Head(selected_kinds))) >>)
         \o NormalizedKinds(Tail(selected_kinds))

\* _pick_problem_type: the candidates, the weights given to rng.choices (none for
\* rng.choice and for the early returns), whether the weak kinds were asked for, and
\* the generator afterwards; the problem type is that of a candidate the rng can draw
Picked(kinds, weights, consulted, weak) ==
    [kinds |-> kinds, weights |-> weights, consulted |-> consulted,
     weak_kinds |-> weak.weak_kinds, reused |-> weak.reused, generator |-> weak.generator]

_pick_problem_type(gen, table, selected_kinds) ==
    LET Weighted(kinds, weak) ==
            IF weak.weak_kinds = {} THEN Picked(kinds, Nothing, TRUE, weak)
            ELSE Picked(kinds,
                        Some([i \in 1..Len(kinds) |->
                                 IF kinds[i] \in weak.weak_kinds THEN WEAKNESS_KIND_BOOST
                                 ELSE WEAKNESS_KIND_FLOOR]),
                        TRUE, weak)
        Chosen(kinds) ==
            IF Len(kinds) <= 1 THEN Picked(kinds, Nothing, FALSE, WeakKinds({}, gen, FALSE))
            ELSE Weighted(kinds, _get_cached_weak_kinds(gen, table))
    IN  Chosen(NormalizedKinds(selected_kinds))

\* the problem types a pick can return: rng.choice and rng.choices draw any candidate
\* of positive weight, and no candidate means JUEGO_OR
Drawable(pick) ==
    IF pick.kinds = << >> THEN {"JUEGO_OR"}
    ELSE {_kind_to_problem_type(pick.kinds[i]) :
             i \in {j \in 1..Len(pick.kinds) :
                       pick.weights = Nothing \/ pick.weights[1][j].h > 0}}

GeneratorDbPaths == {None, "learning.db"}
SelectedKinds == {<< >>, <<"ROL">>, <<"OR", "ROL">>, <<" rol ", "", "or">>, <<"OR", "ROL", "CC_3BET">>}
AttemptRecords ==
    {[kind |-> k, is_correct |-> c] : k \in {"OR", "ROL"}, c \in {0, 1}}
        \cup {[is_correct |-> 1]}

GeneratorCall(op, arg) == [op |-> op, arg |-> arg]

\* JuegoProblemGenerator(rng=..., progress_db_path=...), with or without is_pro=...:
\* __init__ takes no such keyword
CreateGenerator ==
    /\ generator = Nothing
    /\ \E path \in GeneratorDbPaths, is_pro \in {Nothing, Some(TRUE), Some(FALSE)} :
          /\ call' = Some(GeneratorCall("JuegoProblemGenerator",
                                        [progress_db_path |-> path, is_pro |-> is_pro]))
          /\ IF is_pro # Nothing
             THEN /\ ret' = Some(Raised("TypeError: __init__() got an unexpected keyword argument 'is_pro'"))
                  /\ UNCHANGED generator
             ELSE /\ ret' = Some(Returned(JuegoProblemGenerator(path)))
                  /\ generator' = Some(JuegoProblemGenerator(path))
    /\ UNCHANGED <<engineVars, attempts>>

\* ProgressStore.ensure_schema
EnsureSchema ==
    /\ attempts' = IF attempts = Nothing THEN Some(<< >>) ELSE attempts
    /\ call' = Some(GeneratorCall("ensure_schema", Nothing))
    /\ ret' = Some(Returned(None))
    /\ UNCHANGED <<engineVars, generator>>

AppendAttempt ==
    /\ IF attempts = Nothing THEN TRUE ELSE Len(attempts[1]) < MaxAttempts
    /\ \E record \in AttemptRecords :
          \E o \in {append_attempt(attempts, record)} :
              /\ call' = Some(GeneratorCall("append_attempt", record))
              /\ ret' = Some(IF o.raised THEN o ELSE Returned(None))
              /\ attempts' = IF o.raised THEN attempts ELSE o.result
    /\ UNCHANGED <<engineVars, generator>>

PickProblemType ==
    /\ generator # Nothing
    /\ \E selected_kinds \in SelectedKinds :
          \E pick \in {_pick_problem_type(generator[1], attempts, selected_kinds)} :
              \E problem_type \in Drawable(pick) :
                  /\ call' = Some(GeneratorCall("_pick_problem_type", selected_kinds))
                  /\ ret' = Some(Returned([pick EXCEPT !.generator = problem_type]))
                  /\ generator' = Some(pick.generator)
    /\ UNCHANGED <<engineVars, attempts>>

NextGenerator == CreateGenerator \/ EnsureSchema \/ AppendAttempt \/ PickProblemType

SpecGenerator == InitRules /\ [][NextGenerator]_vars

-----------------------------------------------------------------------------
(* Properties of PokerEngine *)

\* the last call was a first-stage submit that the judge graded
GradedFirstStage ==
    /\ last.op = "submit"
    /\ ~last.pending
    /\ last.judge_called
    /\ last.res[1].judge_result # Nothing

\* the verdict of that submit
Verdict == last.res[1].judge_result[1]

\* bool(getattr(result, "correct", False))
VerdictCorrect(r) == ("correct" \in DOMAIN r) /\ r.correct

\* the judge's ruling asks for the call-threshold question
RequiresFollowup(r) ==
    /\ "followup_expected_max_bb" \in DOMAIN r.debug
    /\ r.debug.followup_expected_max_bb.k # "None"

\* the result of a submit tells the caller to show the follow-up
FollowupShown ==
    /\ followup # Nothing
    /\ last.res[1].show_followup_buttons
    /\ last.res[1].is_correct = None
    /\ last.res[1].followup_choices = Some(FOLLOWUP_CHOICES)

\* C1: with JUEGOJudge, a first-stage submit leaves a follow-up pending (followup set,
\* follow-up buttons shown with the choices [2, 2.25, 2.5, 3], is_correct None) if and
\* only if the verdict was correct and the judge's expected action requires a
\* follow-up; so a correct LIMP_CALL on the tag LIMP_CALL_2_5_BB enters the follow-up.
C1_FollowupIffCorrectAndRequired ==
    (judge = "JUEGOJudge" /\ GradedFirstStage) =>
        (FollowupShown <=> (VerdictCorrect(Verdict) /\ RequiresFollowup(Verdict)))

\* C2: a follow-up is pending only if the first-stage answer to the current question
\* was judged correct; a submit whose verdict is incorrect leaves no follow-up; and
\* the engine holds at most one follow-up context.
C2_FollowupOnlyAfterCorrect ==
    /\ Len(followup) <= 1
    /\ followup # Nothing =>
          (last_judge_result # Nothing /\ VerdictCorrect(last_judge_result[1]))
    /\ (GradedFirstStage /\ ~VerdictCorrect(Verdict)) => followup = Nothing

\* C2 happens: a graded first-stage submit has just started a follow-up, and
\* elsewhere an OR_SB answer was graded incorrect
C2_FollowupEntered ==
    /\ GradedFirstStage
    /\ judge = "JUEGOJudge"
    /\ followup # Nothing
    /\ followup[1].expected_max_bb = Num(250, 0)

\* float(str(user_action).strip().upper()) succeeds
NumericAnswer(a) == a # Nothing /\ ParseFloat(Upper(Strip(a[1]))).k # "ValueError"

\* the number a numeric answer stands for
AnswerValue(a) == ParseFloat(Upper(Strip(a[1])))

\* this step is a submit of a numeric string made while a follow-up is pending
FollowupAnswered ==
    /\ followup # Nothing
    /\ last'.op = "submit"
    /\ last'.pending
    /\ NumericAnswer(last'.arg)

\* after the step the follow-up is gone and the result shows the Next button
Resolved ==
    /\ followup' = Nothing
    /\ ~last'.raised
    /\ last'.res[1].show_next_button
    /\ last'.res[1].is_correct \in {"True", "False"}

\* an answer graded incorrect names the expected threshold in its text
IncorrectNamesExpected ==
    last'.res[1].is_correct = "False" =>
        /\ last'.res[1].text[1] = "followup_incorrect"
        /\ last'.res[1].text[2] = FloatRepr(followup[1].expected_max_bb)

\* the two numbers differ by less than 1e-9 (ten units of 1e-10)
Within1e9(a, b) ==
    /\ a.k = "num" /\ b.k = "num"
    /\ a.h - b.h \in -1..1
    /\ (a.h - b.h) * 100000000 + (a.t - b.t) \in -9..9

\* C3 as stated: a numeric answer to a pending follow-up is graded correct exactly
\* when the number equals expected_max_bb; in both cases the follow-up is cleared and
\* Next is shown, and an incorrect answer's text names the expected threshold.
C3_NumericAnswerExact ==
    [][FollowupAnswered =>
          /\ Resolved
          /\ IncorrectNamesExpected
          /\ last'.res[1].is_correct = "True" <=>
                SameNumber(AnswerValue(last'.arg), followup[1].expected_max_bb)]_vars

\* C3 amended: a numeric answer to a pending follow-up is graded correct exactly when
\* the number lies within 1e-9 of expected_max_bb; in both cases the follow-up is
\* cleared and Next is shown, and an incorrect answer's text names the threshold.
C3_NumericAnswerWithinTolerance ==
    [][FollowupAnswered =>
          /\ Resolved
          /\ IncorrectNamesExpected
          /\ last'.res[1].is_correct = "True" <=>
                Within1e9(AnswerValue(last'.arg), followup[1].expected_max_bb)]_vars

\* C3 happens: a number that is not the threshold but within 1e-9 of it was graded
C3_CloseAnswerGraded ==
    /\ last.op = "submit"
    /\ last.pending
    /\ NumericAnswer(last.arg)
    /\ AnswerValue(last.arg) = Num(250, 1)
    /\ last.res[1].is_correct = "True"
    /\ followup = Nothing

\* C4: after new_question (also when it raises), start_juego, start_yokosawa_open or
\* reset_state, no follow-up is pending, whatever state preceded the call.
C4_NoFollowupAfterRestart ==
    last.op \in {"new_question", "start_juego", "start_yokosawa_open", "reset_state"} =>
        followup = Nothing

\* C4 happens: new_question raised while a follow-up was pending
C4_PendingDroppedByRaisingNewQuestion ==
    /\ last.op = "new_question"
    /\ last.raised
    /\ last.pending
    /\ followup = Nothing

\* the allowed first-stage actions of each problem type
AllowedActions(problem) ==
    CASE problem = "JUEGO_ROL" -> {"FOLD", "RAISE", "CALL", "CHECK", "LIMP_CALL"}
      [] problem = "JUEGO_3BET" -> {"FOLD", "RAISE", "CALL"}
      [] OTHER -> {"FOLD", "RAISE", "LIMP_CALL"}

\* this step is a submit the engine rejects: an action outside the allowed set at stage
\* one, or a non-numeric string while a follow-up is pending
RejectedSubmit ==
    /\ last'.op = "submit"
    /\ last'.arg # Nothing
    /\ \/ followup = Nothing /\ Upper(Strip(last'.arg[1])) \notin AllowedActions(current_problem)
       \/ followup # Nothing /\ ~NumericAnswer(last'.arg)

\* C5: a rejected submit leaves difficulty, current_problem, context, followup and the
\* stored judge result unchanged, does not call the judge, and returns is_correct None.
C5_RejectedSubmitChangesNothing ==
    [][RejectedSubmit =>
          /\ UNCHANGED <<difficulty, current_problem, context, followup, last_judge_result>>
          /\ ~last'.judge_called
          /\ ~last'.raised
          /\ last'.res[1].is_correct = None]_vars

\* C5 happens: a non-numeric string was submitted to a pending follow-up, which stays
C5_NonNumericFollowupAnswer ==
    /\ last.op = "submit"
    /\ last.pending
    /\ ~NumericAnswer(last.arg)
    /\ last.arg # Nothing
    /\ followup # Nothing

\* the judge was called by the last submit and gave no verdict: it raised
JudgeRaisedInLast ==
    /\ ~last.pending
    /\ last.judge_called
    /\ last.res = Nothing \/ last.res[1].judge_result = Nothing

\* C6: submit returns a SubmitResult and never raises, also when the judge raises;
\* then the result has is_correct None and no follow-up is started.
C6_SubmitNeverRaises ==
    last.op = "submit" =>
        /\ ~last.raised
        /\ last.res # Nothing
        /\ JudgeRaisedInLast => (last.res[1].is_correct = None /\ followup = Nothing)

\* C6 happens: the judge raised inside a submit
C6_JudgeRaisedInSubmit ==
    /\ last.op = "submit"
    /\ JudgeRaisedInLast
    /\ judge = "FakeJudge"
    /\ current_problem = "JUEGO_3BET"

-----------------------------------------------------------------------------
(* Properties of the repository, the judge and the resolver *)

Called(ops) == call # Nothing /\ call[1].op \in ops

\* the kind each judge entry point looks up
KindOf(entry) ==
    CASE entry = "judge_or" -> "OR"
      [] entry = "judge_or_sb" -> "OR_SB"
      [] entry = "judge_3bet" -> "CC_3BET"
      [] entry = "judge_rol" -> "ROL"

\* the rule function behind each judge entry point
RuleOf(entry) ==
    CASE entry = "judge_or" -> "_expected_action_or"
      [] entry = "judge_or_sb" -> "_expected_action_or_sb"
      [] entry = "judge_3bet" -> "_expected_action_3bet"
      [] entry = "judge_rol" -> "_expected_action_rol"

\* the looked-up levels that the loaded ranges hold
KindLoaded(c) == Has(Repo._ranges, Upper(Strip(c.kind)))
PositionLoaded(c) ==
    /\ KindLoaded(c)
    /\ Has(Repo._ranges[Upper(Strip(c.kind))],
           _resolve_position(Repo, Upper(Strip(c.kind)), c.position))
HandLoaded(c) ==
    /\ PositionLoaded(c)
    /\ Has(Repo._ranges[Upper(Strip(c.kind))]
                       [_resolve_position(Repo, Upper(Strip(c.kind)), c.position)],
           _normalize_hand_to_key(c.hand))

\* C7: on a lookup miss get_tag_for_hand returns the tag "FOLD": when the kind, the
\* resolved position or the hand key is absent from the loaded ranges; and the debug
\* info reports found_kind / found_position false for the level that was missing.
C7_MissReturnsFold ==
    Called({"get_tag_for_hand"}) =>
        /\ ~KindLoaded(call[1]) => (ret[1].tag = "FOLD" /\ ~ret[1].debug.found_kind)
        /\ (KindLoaded(call[1]) /\ ~PositionLoaded(call[1])) =>
              (ret[1].tag = "FOLD" /\ ~ret[1].debug.found_position)
        /\ (PositionLoaded(call[1]) /\ ~HandLoaded(call[1])) => ret[1].tag = "FOLD"

\* C8: a judge entry point's verdict.action is the expected action of the tag, and
\* verdict.correct holds exactly when the user's action, normalized for the kind,
\* equals it; inputs beginning with OPEN / RAISE / 3BET normalize to RAISE, and
\* LIMP_CALL / LIMP / CHECK_CALL to LIMP_CALL for OR_SB but to CALL for the other kinds.
C8_VerdictComparesNormalizedAction ==
    Called(JudgeEntries) =>
        /\ ret[1].action = RuleFunction(RuleOf(call[1].op), call[1].position,
                                        ret[1].debug.tag_upper, call[1].loose)
        /\ ret[1].action = ret[1].debug.expected_action
        /\ ret[1].correct <=> (ret[1].debug.user_action = ret[1].action)
        /\ (\E p \in {"OPEN", "RAISE", "3BET"} :
                StartsWith(Upper(Strip(call[1].user_action)), p))
              => ret[1].debug.user_action = "RAISE"
        /\ Upper(Strip(call[1].user_action)) \in {"LIMP_CALL", "LIMP", "CHECK_CALL"}
              => ret[1].debug.user_action =
                    (IF call[1].op = "judge_or_sb" THEN "LIMP_CALL" ELSE "CALL")
        /\ (/\ call[1].op = "judge_or"
            /\ ret[1].debug.tag_upper = "OPEN_TIGHT"
            /\ call[1].user_action = "RAISE") => ret[1].correct

\* C8 happens: an OR question with the tag OPEN_TIGHT at BTN was answered RAISE
C8_OpenTightAnsweredRaise ==
    /\ Called({"judge_or"})
    /\ call[1].position = "BTN"
    /\ call[1].user_action = "RAISE"
    /\ ret[1].debug.tag_upper = "OPEN_TIGHT"
    /\ ret[1].correct

\* the member of Action a judge's action string names
ActionOf(a) == IF a = A_LIMP_CALL THEN "LIMP" ELSE a

\* C9: the expected action in a judge's verdict equals
\* resolve_expected_action(tag, ctx).action, for the tag the repository returned and
\* the context built from the position and the loose flag, with bb_vs_sb true
\* exactly when the position is BBvsSB.
C9_JudgeRulesByResolver ==
    Called(JudgeEntries) =>
        \A open_size_bb \in ProbeOpenSizes :
            ActionOf(ret[1].action) =
                resolve_expected_action(
                    ret[1].debug.tag,
                    ProblemContext(call[1].position, call[1].loose,
                                   call[1].position = "BBvsSB", open_size_bb)).action

\* the tag families the resolver knows
ResolverRecognizes(t) ==
    \/ t \in {"FOLD", "OPEN_RAISE", "OPEN_RAISE_IF_FISH", "OPEN_FOLD", "SB_OPEN_RAISE_3BB",
              "SB_LIMP_CALL_LE_3BB", "SB_LIMP_CALL_LE_2_5BB", "SB_LIMP_CALL_LE_2_25BB",
              "SB_LIMP_CALL_LE_2BB", "ROL_CALL", "ROL_RAISE_4BB__BB_VS_SB",
              "ROL_CALL__VS_FISH", "ROL_FOLD__NO_FISH", "OVERLIMP_CALL",
              "OVERLIMP_CHECK__BB_VS_SB", "FOLD_VS_3BET"}
    \/ \E p \in {"3BET_VS_4BET_", "CALL_VS_OPEN_", "CALL_VS_3BET_", "4BET_VS_5BET_",
                 "SHOVE_VS_"} : StartsWith(t, p)

\* the tag families each rule function of the judge knows
RuleRecognizes(rule, t) ==
    CASE rule = "_expected_action_or" -> t \in {"OPEN_TIGHT", "OPEN_LOOSE", "FOLD"}
      [] rule = "_expected_action_or_sb" ->
            StartsWith(t, "OPEN_") \/ StartsWith(t, "LIMP_CALL_") \/ t = "FOLD"
      [] rule = "_expected_action_3bet" ->
            \/ StartsWith(t, "CALL_") \/ StartsWith(t, "FOLD")
            \/ Contains(t, "3BET") \/ Contains(t, "4BET") \/ Contains(t, "SHOVE")
      [] rule = "_expected_action_rol" ->
            t \in {"ROL_ALWAYS", "ROL_VS_FISH", "OVERLIMP_VS_FISH", "FOLD"}

\* the call resolved a tag outside the families of the function called
UnrecognizedTagResolved ==
    \/ /\ Called({"resolve_expected_action"})
       /\ ~ResolverRecognizes(Upper(Strip(call[1].tag)))
    \/ /\ Called(RuleFunctions)
       /\ ~RuleRecognizes(call[1].op, call[1].tag)

\* the action the call returned
ResolvedAction ==
    IF call[1].op = "resolve_expected_action" THEN ret[1].action ELSE ret[1]

\* every call returns one action, the same for the same arguments
ResolutionTotal ==
    /\ Called({"resolve_expected_action"}) =>
          /\ ret[1].action \in Actions
          /\ ret[1] = resolve_expected_action(
                          call[1].tag,
                          ProblemContext(call[1].position, call[1].loose,
                                         call[1].bb_vs_sb, call[1].open_size_bb))
    /\ Called(RuleFunctions) =>
          /\ ret[1] \in {A_FOLD, A_RAISE, A_CALL, A_LIMP_CALL, A_CHECK}
          /\ ret[1] = RuleFunction(call[1].op, call[1].position, call[1].tag, call[1].loose)

BbVsSbRule == call[1].op = "_expected_action_rol" /\ Strip(call[1].position) = "BBvsSB"

-----------------------------------------------------------------------------
(* Properties of resolve_expected_action *)

\* the tag and the position as resolve_expected_action reads them
ResolvedTag == Upper(Strip(call[1].tag))
ResolvedPosition == Upper(Strip(call[1].position))

\* the threshold each SB limp-call tag names
LimpThreshold(t) ==
    CASE t = "SB_LIMP_CALL_LE_3BB" -> Num(300, 0)
      [] t = "SB_LIMP_CALL_LE_2_5BB" -> Num(250, 0)
      [] t = "SB_LIMP_CALL_LE_2_25BB" -> Num(225, 0)
      [] t = "SB_LIMP_CALL_LE_2BB" -> Num(200, 0)

SbLimpTags == {"SB_LIMP_CALL_LE_3BB", "SB_LIMP_CALL_LE_2_5BB", "SB_LIMP_CALL_LE_2_25BB",
               "SB_LIMP_CALL_LE_2BB"}

\* C11: in every context an SB_LIMP_CALL_LE_<x>BB tag resolves to Limp with size_bb the
\* threshold x the tag names, a required follow-up and no follow-up action, and
\* SB_OPEN_RAISE_3BB resolves to Raise 3.0 with no follow-up
C11_SbLimpTagsResolveToThreshold ==
    Called({"resolve_expected_action"}) =>
        /\ ResolvedTag \in SbLimpTags =>
              ret[1] = [action |-> "LIMP", size_bb |-> LimpThreshold(ResolvedTag),
                        followup_expected_action |-> None, followup_required |-> TRUE]
        /\ ResolvedTag = "SB_OPEN_RAISE_3BB" =>
              ret[1] = [action |-> "RAISE", size_bb |-> Num(300, 0),
                        followup_expected_action |-> None, followup_required |-> FALSE]

\* the 2.25 tag resolved away from the SB, with an open size other than its threshold
C11_LimpTagResolvedOffSb ==
    /\ Called({"resolve_expected_action"})
    /\ ResolvedTag = "SB_LIMP_CALL_LE_2_25BB"
    /\ ResolvedPosition = "BTN"
    /\ call[1].open_size_bb = Num(300, 0)
    /\ call[1].loose /\ call[1].bb_vs_sb
    /\ ret[1].action = "LIMP" /\ ret[1].size_bb = Num(225, 0)

\* the follow-up action each 3BET_VS_4BET_<x> tag names
FourBetAnswer(t) ==
    CASE t = "3BET_VS_4BET_SHOVE" -> "RAISE"
      [] t = "3BET_VS_4BET_CALL" -> "CALL"
      [] t = "3BET_VS_4BET_FOLD" -> "FOLD"

NoFollowup(e) == ~e.followup_required /\ e.followup_expected_action = None

\* C12: in every context 3BET_VS_4BET_SHOVE / _CALL / _FOLD resolve to Raise with a
\* required follow-up whose expected action is Raise / Call / Fold;
\* 3BET_VS_4BET_CALL_SITUATIONAL resolves to Raise, CALL_VS_OPEN_* and CALL_VS_3BET_* to
\* Call and FOLD_VS_3BET to Fold, each without follow-up
C12_ThreeBetFamilyResolution ==
    Called({"resolve_expected_action"}) =>
        /\ ResolvedTag \in {"3BET_VS_4BET_SHOVE", "3BET_VS_4BET_CALL", "3BET_VS_4BET_FOLD"} =>
              /\ ret[1].action = "RAISE"
              /\ ret[1].followup_required
              /\ ret[1].followup_expected_action = FourBetAnswer(ResolvedTag)
        /\ ResolvedTag = "3BET_VS_4BET_CALL_SITUATIONAL" =>
              ret[1].action = "RAISE" /\ NoFollowup(ret[1])
        /\ (StartsWith(ResolvedTag, "CALL_VS_OPEN_") \/ StartsWith(ResolvedTag, "CALL_VS_3BET_")) =>
              ret[1].action = "CALL" /\ NoFollowup(ret[1])
        /\ ResolvedTag = "FOLD_VS_3BET" => ret[1].action = "FOLD" /\ NoFollowup(ret[1])

\* the situational tag resolved: Raise and nothing to follow
C12_SituationalTagResolved ==
    /\ Called({"resolve_expected_action"})
    /\ ResolvedTag = "3BET_VS_4BET_CALL_SITUATIONAL"
    /\ call[1].loose /\ call[1].bb_vs_sb
    /\ ret[1].action = "RAISE" /\ ~ret[1].followup_required

-----------------------------------------------------------------------------
(* Properties of the play-or-limp rules: _expected_action_rol as judge_rol *)
(* applies it, and the ROL_ / OVERLIMP_ tags of resolve_expected_action    *)

\* what judge_rol expected: the action and the raise size
RolExpected == <<ret[1].action, ret[1].debug.expected_raise_size_bb>>
RolTag == ret[1].debug.tag_upper
\* the BB-vs-SB subcase as each function reads it
JudgeBbVsSb == Strip(call[1].position) = "BBvsSB"
ResolverBbVsSb == call[1].bb_vs_sb

Sized(e) == <<e.action, e.size_bb>>

-----------------------------------------------------------------------------
(* Properties of the open-raise tags of resolve_expected_action *)

\* the open size of the position table: 2.5bb on the button, 3bb anywhere else
OpenSizeAt(pos) == IF pos = "BTN" THEN Num(250, 0) ELSE Num(300, 0)

\* C14: OPEN_RAISE resolves to Raise 2.5bb when the position is BTN and Raise 3bb for
\* every other position, known or not; OPEN_RAISE_IF_FISH resolves the same way when a
\* loose player exists and to Fold with no size otherwise; OPEN_FOLD resolves to Fold
C14_OpenRaiseSizeByPosition ==
    Called({"resolve_expected_action"}) =>
        /\ ResolvedTag = "OPEN_RAISE" =>
              Sized(ret[1]) = <<"RAISE", OpenSizeAt(ResolvedPosition)>> /\ NoFollowup(ret[1])
        /\ ResolvedTag = "OPEN_RAISE_IF_FISH" =>
              /\ Sized(ret[1]) = IF call[1].loose
                                 THEN <<"RAISE", OpenSizeAt(ResolvedPosition)>>
                                 ELSE <<"FOLD", NoFloat>>
              /\ NoFollowup(ret[1])
        /\ ResolvedTag = "OPEN_FOLD" => Sized(ret[1]) = <<"FOLD", NoFloat>>

\* OPEN_RAISE_IF_FISH resolved on the button with a loose player: Raise 2.5bb
C14_FishOpenOnButton ==
    /\ Called({"resolve_expected_action"})
    /\ ResolvedTag = "OPEN_RAISE_IF_FISH"
    /\ call[1].position = "BTN" /\ call[1].loose
    /\ Sized(ret[1]) = <<"RAISE", Num(250, 0)>>

-----------------------------------------------------------------------------
(* Properties of the hand grid *)

\* the 169 canonical hand keys: pairs, and the stronger rank first with S or O
CanonicalKeys ==
    {r \o r : r \in RankChars}
    \cup {hi \o lo \o t : <<hi, lo>> \in {x \in RankChars \X RankChars :
                                              RankIndex[x[1]] < RankIndex[x[2]]},
                           t \in {"S", "O"}}

GridCells == (0..12) \X (0..12)

\* C15: hand_key_to_rc and rc_to_hand_key are mutual inverses: for each of the 169
\* canonical keys h, rc_to_hand_key(hand_key_to_rc(h)) = h, for each cell (r, c) of
\* the 13 x 13 grid, hand_key_to_rc(rc_to_hand_key(r, c)) = (r, c), and so no two of
\* the 169 keys share a cell
C15_GridBijection ==
    /\ Cardinality(CanonicalKeys) = 169
    /\ (Called({"hand_key_to_rc"}) /\ call[1].hand_key \in CanonicalKeys) =>
          /\ ~ret[1].raised
          /\ rc_to_hand_key(ret[1].result[1][1], ret[1].result[1][2])
                = Returned(call[1].hand_key)
          /\ \A h \in CanonicalKeys \ {call[1].hand_key} : hand_key_to_rc(h) # ret[1]
    /\ (Called({"rc_to_hand_key"}) /\ <<call[1].r, call[1].c>> \in GridCells) =>
          /\ ~ret[1].raised
          /\ ret[1].result[1] \in CanonicalKeys
          /\ hand_key_to_rc(ret[1].result[1]) = Returned(<<call[1].r, call[1].c>>)

\* 72O was placed in the lower triangle, at row 12 and column 7
C15_OffsuitKeyPlaced ==
    /\ Called({"hand_key_to_rc"})
    /\ call[1].hand_key = "72O"
    /\ ret[1] = Returned(<<12, 7>>)

\* the key as hand_key_to_rc reads it
ReadKey == Upper(Strip(call[1].hand_key))

\* two ranks of the alphabet, equal for a pair, different and followed by S or O otherwise
WellFormedKey(hk) ==
    \/ Len(hk) = 2 /\ CharAt(hk, 1) \in RankChars /\ CharAt(hk, 1) = CharAt(hk, 2)
    \/ /\ Len(hk) = 3
       /\ CharAt(hk, 1) \in RankChars /\ CharAt(hk, 2) \in RankChars
       /\ CharAt(hk, 1) # CharAt(hk, 2)
       /\ CharAt(hk, 3) \in {"S", "O"}

\* C16: for every well-formed hand key, in whichever order its two ranks are written,
\* hand_key_to_rc returns a cell of the 13 x 13 grid with row = col exactly for pairs,
\* row < col exactly for suited keys and row > col exactly for offsuit keys;
\* rc_to_hand_key labels the diagonal as pairs, row < col as suited, row > col as offsuit
C16_GridLayout ==
    /\ (Called({"hand_key_to_rc"}) /\ WellFormedKey(ReadKey)) =>
          /\ ~ret[1].raised
          /\ ret[1].result[1] \in GridCells
          /\ (ret[1].result[1][1] = ret[1].result[1][2]) <=> (Len(ReadKey) = 2)
          /\ (ret[1].result[1][1] < ret[1].result[1][2]) <=> EndsWith(ReadKey, "S")
          /\ (ret[1].result[1][1] > ret[1].result[1][2]) <=> EndsWith(ReadKey, "O")
    /\ (Called({"rc_to_hand_key"}) /\ ~ret[1].raised) =>
          /\ (call[1].r = call[1].c) <=> (Len(ret[1].result[1]) = 2)
          /\ (call[1].r < call[1].c) <=> EndsWith(ret[1].result[1], "S")
          /\ (call[1].r > call[1].c) <=> EndsWith(ret[1].result[1], "O")
          /\ WellFormedKey(ret[1].result[1])

\* a suited key with the weaker rank written first landed in the upper triangle
C16_ReversedSuitedKeyPlaced ==
    /\ Called({"hand_key_to_rc"})
    /\ call[1].hand_key = "2As"
    /\ ret[1] = Returned(<<0, 12>>)

-----------------------------------------------------------------------------
(* Properties of the card conversions *)

\* two different cards of the deck were converted
DealtPairConverted ==
    /\ Called(ConversionFunctions)
    /\ call[1].c1 \in Deck /\ call[1].c2 \in Deck /\ call[1].c1 # call[1].c2

\* the key of two cards by the pair / suited / offsuit rule, the stronger rank first
KeyByRule(c1, c2) ==
    LET Rule(r1, s1, r2, s2) ==
            IF r1 = r2 THEN r1 \o r2
            ELSE (IF RankIndex[r1] < RankIndex[r2] THEN r1 \o r2 ELSE r2 \o r1)
                 \o (IF s1 = s2 THEN "S" ELSE "O")
    IN  Rule(CharAt(c1, 1), CharAt(c1, 2), CharAt(c2, 1), CharAt(c2, 2))

\* a key with its suffix, when it has one, in lower case
LowerSuffix(k) == IF Len(k) = 2 THEN k ELSE SubSeq(k, 1, 2) \o Lower(SubSeq(k, 3, 3))

\* C17 as stated: for every ordered pair of distinct cards of the deck the card-to-key
\* conversion returns one of the 169 canonical keys, the pair key for equal ranks, the
\* suited key for equal suits, the offsuit key otherwise, with the stronger rank first;
\* the result is the same for (c1, c2) and (c2, c1)
C17_CardsToCanonicalKey ==
    DealtPairConverted =>
        /\ ~ret[1].raised
        /\ ret[1].result[1] \in CanonicalKeys
        /\ ret[1].result[1] = KeyByRule(call[1].c1, call[1].c2)
        /\ ret[1] = CardsToKey(call[1].op, call[1].c2, call[1].c1)

\* C17 amended: as C17 for JsonRangeRepository._cards_to_hand_key; to_hand_key of the
\* generator returns the same key with the suffix in lower case (s or o), which is a
\* canonical key only once upper-cased
C17_CardsToKeyUpToSuffixCase ==
    DealtPairConverted =>
        /\ ~ret[1].raised
        /\ Upper(ret[1].result[1]) \in CanonicalKeys
        /\ Upper(ret[1].result[1]) = KeyByRule(call[1].c1, call[1].c2)
        /\ ret[1] = CardsToKey(call[1].op, call[1].c2, call[1].c1)
        /\ call[1].op = "_cards_to_hand_key" => ret[1].result[1] \in CanonicalKeys
        /\ call[1].op = "to_hand_key" =>
              ret[1].result[1] = LowerSuffix(KeyByRule(call[1].c1, call[1].c2))

\* the generator converted king and ace of different suits, the weaker card first
C17_OffsuitCardsConverted ==
    /\ Called({"to_hand_key"})
    /\ call[1].c1 = "Kd" /\ call[1].c2 = "As"
    /\ ret[1] = Returned("AKo")

\* a rank character outside the 13-rank alphabet among the first two of the key
BadRank(hk) == \E i \in 1..Min(2, Len(hk)) : CharAt(hk, i) \notin RankChars

\* C18: invalid grid input is never mapped to a cell.  hand_key_to_rc raises when the
\* key, read without surrounding blanks and in upper case, is not 2 or 3 characters
\* long, when one of its ranks is outside AKQJT98765432, when the third character of a
\* three-character key is not S or O, when a two-character key has two different
\* ranks and when a three-character key has two equal ranks; rc_to_hand_key raises
\* when row or col is outside 0..12
C18_InvalidGridInputRaises ==
    /\ Called({"hand_key_to_rc"}) =>
          /\ Len(ReadKey) \notin {2, 3} => ret[1] = Raised("ValueError")
          /\ (Len(ReadKey) \in {2, 3} /\ BadRank(ReadKey)) => ret[1] = Raised("ValueError")
          /\ (Len(ReadKey) = 3 /\ CharAt(ReadKey, 3) \notin {"S", "O"}) =>
                ret[1] = Raised("ValueError")
          /\ (Len(ReadKey) = 2 /\ CharAt(ReadKey, 1) # CharAt(ReadKey, 2)) =>
                ret[1] = Raised("ValueError")
          /\ (Len(ReadKey) = 3 /\ CharAt(ReadKey, 1) = CharAt(ReadKey, 2)) =>
                ret[1] = Raised("ValueError")
          /\ ~ret[1].raised => ret[1].result[1] \in GridCells
    /\ Called({"rc_to_hand_key"}) =>
          (<<call[1].r, call[1].c>> \notin GridCells => ret[1] = Raised("ValueError"))

\* a doubled character that is no rank was refused
C18_UnknownRankRefused ==
    /\ Called({"hand_key_to_rc"})
    /\ call[1].hand_key = "XX"
    /\ ret[1] = Raised("ValueError")

-----------------------------------------------------------------------------
(* Properties of position resolution *)

PositionOps == {"_resolve_position", "get_tag_for_hand", "get_range_grid_view"}

\* the repository and the loaded pack of the call
CalledRepo == JsonRangeRepository(PositionDocuments[call[1].doc])
CalledPack == LoadPack(PositionPacks[call[1].doc])

\* the entries <<position, hands>> a document declares for a kind
RECURSIVE DeclaredIn(_, _)
DeclaredIn(ranges, k) ==
    IF ranges = << >> THEN {}
    ELSE (IF Upper(Strip(Head(ranges)[1])) = k
          THEN {Head(ranges)[2][i] : i \in 1..Len(Head(ranges)[2])} ELSE {})
         \cup DeclaredIn(Tail(ranges), k)

DeclaredEntries == DeclaredIn(PositionDocuments[call[1].doc], Upper(Strip(call[1].kind)))

\* the name a declared position is kept under
Kept(p) == Upper(Strip(p))

\* a spelling without its case, blanks and separators
RECURSIVE Bare(_)
Bare(x) ==
    IF x = "" THEN ""
    ELSE (IF CharAt(x, 1) \in DOMAIN UpperTable THEN UpperTable[CharAt(x, 1)]
          ELSE IF CharAt(x, 1) \in DOMAIN LowerTable \/ CharAt(x, 1) \in DOMAIN DigitTable
               THEN CharAt(x, 1)
          ELSE "") \o Bare(Rest(x))

\* x differs from p in letter case, whitespace and non-alphanumeric separators only
Cosmetic(x, p) == Bare(x) = Bare(p)

\* the position the call resolved to, when it tells
ResolvedTo ==
    CASE call[1].op = "_resolve_position" -> ret[1]
      [] call[1].op = "get_tag_for_hand" -> ret[1].debug.position_resolved
      [] call[1].op = "get_range_grid_view" ->
            IF ret[1].raised THEN "KeyError" ELSE ret[1].result[1].pos

\* the answer of the call without the echo of its arguments
Answer(r) ==
    CASE call[1].op = "_resolve_position" -> <<r>>
      [] call[1].op = "get_tag_for_hand" -> <<r.tag, r.debug.found_position>>
      [] call[1].op = "get_range_grid_view" -> <<r>>

\* the same call with the position written as p
AnswerFor(p) ==
    CASE call[1].op = "_resolve_position" ->
            Answer(_resolve_position(CalledRepo, call[1].kind, p))
      [] call[1].op = "get_tag_for_hand" ->
            Answer(get_tag_for_hand(CalledRepo, call[1].kind, p, call[1].hand))
      [] call[1].op = "get_range_grid_view" ->
            Answer(get_range_grid_view(CalledRepo, CalledPack, call[1].kind, p, call[1].size))

\* C19: for every kind and every position p declared for it, any spelling of p that
\* differs only in letter case, whitespace or non-alphanumeric separators resolves to
\* p, and get_tag_for_hand and get_range_grid_view answer it as they answer p
C19_CosmeticSpellingsResolve ==
    Called(PositionOps) =>
        \A e \in DeclaredEntries :
            Cosmetic(call[1].position, e[1]) =>
                /\ ResolvedTo = Kept(e[1])
                /\ Answer(ret[1]) = AnswerFor(e[1])

\* the tag a document declares for a hand at a position entry
DeclaredTag(e, hand) ==
    LET hm == LoadHandMap(e[2], EmptyDict)
    IN  Get(hm, _normalize_hand_to_key(hand), "")

\* C20: position resolution never answers one declared position from another's data:
\* resolving the own spelling of a declared position p returns p and its tags, also
\* when another declared position of the kind sanitizes to the same alias, and a
\* spelling that is no cosmetic variant of a declared position resolves to no
\* declared position (found_position false)
C20_NoCrossPositionAnswer ==
    Called(PositionOps) =>
        /\ \A e \in DeclaredEntries :
              call[1].position = e[1] =>
                  /\ ResolvedTo = Kept(e[1])
                  /\ call[1].op = "get_tag_for_hand" =>
                        ret[1].tag = DeclaredTag(e, call[1].hand)
        /\ (\A e \in DeclaredEntries : ~Cosmetic(call[1].position, e[1])) =>
              /\ \A e \in DeclaredEntries : ResolvedTo # Kept(e[1])
              /\ call[1].op = "get_tag_for_hand" => ~ret[1].debug.found_position

-----------------------------------------------------------------------------
(* Properties of the grid view *)

GridReturned == Called({"get_range_grid_view"}) /\ ~ret[1].raised

\* the cells of the returned grid, and the hand key of a cell
GridCell(r, c) == ret[1].result[1].cells[r][c]
CellKey(r, c) == rc_to_hand_key(r - 1, c - 1).result[1]

\* the tag get_tag_for_hand returns for the kind and position of the call
CellTag(r, c) == get_tag_for_hand(CalledRepo, call[1].kind, call[1].position, CellKey(r, c)).tag

\* legend[kind][tag] of the repository, white when there is no colour
LegendColour(tag) ==
    LET legend == Get(CalledPack._legend_by_kind, Upper(Strip(call[1].kind)), EmptyDict)
    IN  IF Get(legend, tag, None) \in {None, ""} THEN "FFFFFF" ELSE legend[tag]

NoLegendForKind == ~Has(CalledPack._legend_by_kind, Upper(Strip(call[1].kind)))

\* C22: get_range_grid_view raises whenever no legend data exists for the requested
\* kind, also when a legend was loaded for other kinds only; it never returns a grid
\* for a kind that has no legend
C22_GridRaisesWithoutLegend ==
    Called({"get_range_grid_view"}) /\ NoLegendForKind => ret[1].raised

-----------------------------------------------------------------------------
(* Properties of the construction *)

CalledFile == Files[call[1].doc]

\* the `ranges` section of the called file
FileRanges == JGet(CalledFile.root.members, "ranges")

\* every declared kind and every declared position is an object
AllObjects(members) == \A i \in 1..Len(members) : IsDict(members[i][2])
RangesWellFormed(ranges) ==
    /\ AllObjects(ranges.members)
    /\ \A i \in 1..Len(ranges.members) : AllObjects(ranges.members[i][2].members)

\* the document is present, is an object and has an object-valued `ranges` section of
\* objects
StructurallyValid ==
    /\ CalledFile.exists /\ CalledFile.parses
    /\ IsDict(CalledFile.root)
    /\ IsDict(FileRanges)
    /\ RangesWellFormed(FileRanges)

\* the repository holds every kind and position the document declares
HoldsAllDeclared(repo) ==
    \A i \in 1..Len(FileRanges.members) :
        LET k == Upper(Strip(FileRanges.members[i][1]))
            pos_map == FileRanges.members[i][2]
        IN  /\ Has(repo._ranges, k)
            /\ IsDict(pos_map) =>
                  \A j \in 1..Len(pos_map.members) :
                      Has(repo._ranges[k], Upper(Strip(pos_map.members[j][1])))

\* C23: constructing the repository fails whenever the document is absent, is not an
\* object, lacks an object-valued `ranges` section or is otherwise structurally invalid,
\* and a repository that was constructed holds all the kinds and positions the document
\* declares, never a part of them
C23_ConstructionAllOrNothing ==
    Called({"__init__"}) =>
        /\ ~StructurallyValid => ret[1].raised
        /\ ~ret[1].raised => HoldsAllDeclared(ret[1].result[1])

\* meta.schema_version of the called file, JNull when it is missing
SchemaVersion ==
    LET meta == JGet(CalledFile.root.members, "meta")
    IN  IF IsDict(meta) THEN JGet(meta.members, "schema_version") ELSE JNull

\* tools/build_final_tags_json.py, line 168: the schema version the build writes
SupportedSchemaVersions == {JNumber(1)}

\* the tags the called file declares for a kind, position and hand, letter case aside
DeclaredInFile(kind, position, hand) ==
    {PyStr(FileRanges.members[i][2].members[j][2].members[h][2]) :
        <<i, j, h>> \in
            {t \in (1..Len(FileRanges.members)) \X (1..2) \X (1..2) :
                /\ Upper(FileRanges.members[t[1]][1]) = Upper(kind)
                /\ t[2] <= Len(FileRanges.members[t[1]][2].members)
                /\ Upper(FileRanges.members[t[1]][2].members[t[2]][1]) = Upper(position)
                /\ t[3] <= Len(FileRanges.members[t[1]][2].members[t[2]][2].members)
                /\ Upper(FileRanges.members[t[1]][2].members[t[2]][2].members[t[3]][1])
                       = Upper(hand)}}

\* C24: constructing JsonRangeRepository raises ValueError naming schema_version when
\* meta.schema_version is an unsupported value, and succeeds when it is missing, with
\* lookups that match hand keys whatever their letter case
C24_SchemaVersionChecked ==
    Called({"__init__", "get_tag_for_hand"})
    /\ call[1].doc \in {"version_1", "version_999", "version_missing", "no_meta"} =>
        /\ (SchemaVersion # JNull /\ SchemaVersion \notin SupportedSchemaVersions) =>
              /\ ret[1].raised
              /\ StartsWith(ret[1].error, "ValueError")
              /\ Contains(ret[1].error, "schema_version")
        /\ SchemaVersion = JNull =>
              /\ ~ret[1].raised
              /\ call[1].op = "get_tag_for_hand" =>
                    \A tag \in DeclaredInFile(call[1].kind, call[1].position, call[1].hand) :
                        ret[1].result[1].tag = tag

-----------------------------------------------------------------------------
(* Properties of the debug payload *)

VerdictEntries == JudgeEntries \cup {"judge_bb_iso"}

\* the kind a judge entry point grades
GradedKind(entry) == IF entry = "judge_bb_iso" THEN "BB_ISO" ELSE KindOf(entry)

\* the tag the repository returns for the call, as it is returned
RawTag == get_tag_for_hand(Repo, GradedKind(call[1].op), call[1].position, call[1].hand).tag

\* C25: the verdict of every judge entry point carries a debug payload with kind,
\* position, hand, the raw tag and expected_action, whatever the kind, the tag (a lookup
\* miss included) and the user's input; judge_3bet grades kind CC_3BET and includes the
\* repository's debug with found_kind
C25_DebugPayloadComplete ==
    Called(VerdictEntries) =>
        /\ {"kind", "position", "hand", "tag", "expected_action"} \subseteq DOMAIN ret[1].debug
        /\ ret[1].debug.kind = GradedKind(call[1].op)
        /\ ret[1].debug.position = call[1].position
        /\ ret[1].debug.hand = call[1].hand
        /\ ret[1].debug.tag = RawTag
        /\ ret[1].debug.expected_action = ret[1].action
        /\ call[1].op = "judge_3bet" =>
              /\ ret[1].debug.kind = "CC_3BET"
              /\ "repo" \in DOMAIN ret[1].debug
              /\ "found_kind" \in DOMAIN ret[1].debug.repo

\* a miss graded by judge_bb_iso and by judge_3bet on an input that is no action
C25_MissGradedWithPayload ==
    /\ Called({"judge_bb_iso", "judge_3bet"})
    /\ RawTag = ""
    /\ call[1].user_action = "ALL_IN"
    /\ ~ret[1].correct
    /\ ret[1].debug.tag = ""

-----------------------------------------------------------------------------
(* Properties of the kind choice *)

\* the is_pro the generator keeps, if it keeps one
GeneratorIsPro ==
    IF generator # Nothing /\ "is_pro" \in DOMAIN generator[1]
    THEN Some(generator[1].is_pro) ELSE Nothing

\* the problem types of the candidates of the returned pick
CandidateTypes ==
    {_kind_to_problem_type(ret[1].result[1].kinds[i]) : i \in 1..Len(ret[1].result[1].kinds)}

\* the weights of the returned pick are BOOST for the weak kinds and FLOOR for the rest
BoostAgainstFloor ==
    /\ ret[1].result[1].weights # Nothing
    /\ \A i \in 1..Len(ret[1].result[1].kinds) :
          ret[1].result[1].weights[1][i] =
              IF ret[1].result[1].kinds[i] \in ret[1].result[1].weak_kinds
              THEN WEAKNESS_KIND_BOOST ELSE WEAKNESS_KIND_FLOOR

\* C26: a generator can be created with is_pro; created with is_pro = False, its
\* _pick_problem_type never asks for the weak kinds and can return every selected kind;
\* created with is_pro = True, a weak kind is weighted WEAKNESS_KIND_BOOST against
\* WEAKNESS_KIND_FLOOR for the others
C26_KindWeightingGatedByPro ==
    /\ Called({"JuegoProblemGenerator"}) /\ call[1].arg.is_pro # Nothing =>
          /\ ~ret[1].raised
          /\ GeneratorIsPro = call[1].arg.is_pro
    /\ Called({"_pick_problem_type"}) /\ GeneratorIsPro = Some(FALSE) =>
          /\ ~ret[1].result[1].consulted
          /\ ret[1].result[1].kinds # << >> => Drawable(ret[1].result[1]) = CandidateTypes
    /\ Called({"_pick_problem_type"}) /\ GeneratorIsPro = Some(TRUE)
       /\ ret[1].result[1].weak_kinds # {} => BoostAgainstFloor

\* the weak kinds freshly computed from the attempts table as it is now; none when the
\* generator has no database or the database has no table
WeakKindsNow ==
    IF generator[1]._progress_db_path = None \/ attempts = Nothing THEN {}
    ELSE FreshWeakKinds(attempts[1])

\* the returned pick asked for the weak kinds
Consulted == Called({"_pick_problem_type"}) /\ ret[1].result[1].consulted

\* the weak kinds a consulted pick used are those of the table now, and a cache that is
\* stamped with the table's MAX(id) holds them
WeakKindsCoherent ==
    /\ Consulted => ret[1].result[1].weak_kinds = WeakKindsNow
    /\ generator # Nothing /\ attempts # Nothing
       /\ generator[1]._weak_cache_last_id = Some(MaxId(attempts[1])) =>
          generator[1]._weak_kinds_cache = FreshWeakKinds(attempts[1])

\* a pick reuses the cached set only when the cache is stamped with the table's MAX(id),
\* and then leaves the cache alone; otherwise it recomputes and stamps the cache
ReusedOnlyWhileUnchanged ==
    Consulted' /\ generator[1]._progress_db_path # None /\ attempts # Nothing =>
        /\ ret'[1].result[1].reused <=>
              generator[1]._weak_cache_last_id = Some(MaxId(attempts[1]))
        /\ ret'[1].result[1].reused => generator' = generator
        /\ generator'[1]._weak_cache_last_id = Some(MaxId(attempts[1]))

-----------------------------------------------------------------------------
(* core/followup_policy.py, and the second stage of a 3BET question *)

\* \d+(?:<sep>\d+)? over the whole of s
NumberWith(s, sep) ==
    LET DigitRun(d) == d # "" /\ \A i \in 1..Len(d) : IsDigit(CharAt(d, i))
    IN  \/ DigitRun(s)
        \/ \E i \in 2..(Len(s) - 1) :
              /\ CharAt(s, i) = sep
              /\ DigitRun(SubSeq(s, 1, i - 1))
              /\ DigitRun(SubSeq(s, i + 1, Len(s)))

\* the part of s between a prefix and a suffix it has
Between(s, prefix, suffix) == SubSeq(s, Len(prefix) + 1, Len(s) - Len(suffix))

Framed(s, prefix, suffix) ==
    Len(s) >= Len(prefix) + Len(suffix) /\ StartsWith(s, prefix) /\ EndsWith(s, suffix)

_parse_expected_max_bb(tag_upper) ==
    LET Value(v) == IF v.k = "ValueError" THEN NoFloat ELSE v
        LimpCx(body) ==
            IF NumberWith(body, ".") THEN Value(ParseFloat(body))
            ELSE IF EndsWith(body, "O") /\ NumberWith(SubSeq(body, 1, Len(body) - 1), ".")
            THEN Value(ParseFloat(SubSeq(body, 1, Len(body) - 1)))
            ELSE NoFloat
        Parsed(tu) ==
            IF Framed(tu, "LIMP_CALL_", "_BB") /\ NumberWith(Between(tu, "LIMP_CALL_", "_BB"), "_")
            THEN Value(ParseFloat(ReplaceChar(Between(tu, "LIMP_CALL_", "_BB"), "_", ".")))
            ELSE IF StartsWith(tu, "LIMPCX") /\ LimpCx(Between(tu, "LIMPCX", "")).k # "None"
            THEN LimpCx(Between(tu, "LIMPCX", ""))
            ELSE IF Framed(tu, "CALL_VS_OPEN_LE_", "X")
                    /\ NumberWith(Between(tu, "CALL_VS_OPEN_LE_", "X"), "_")
            THEN Value(ParseFloat(ReplaceChar(Between(tu, "CALL_VS_OPEN_LE_", "X"), "_", ".")))
            ELSE NoFloat
    IN  IF tag_upper = "" THEN NoFloat
        ELSE Parsed(ReplaceChar(Upper(Strip(tag_upper)), " ", ""))

\* maybe_create_followup: the follow-up the policy asks for, or None
maybe_create_followup(problem_kind, tag_upper, expected_action, stage1_correct) ==
    LET Context(tag, expected_max_bb) ==
            IF expected_max_bb.k = "None" THEN Nothing
            ELSE Some(SBLimpFollowUpContext("", expected_max_bb, tag))
        Policy(tag, expected) ==
            IF problem_kind = "JUEGO_OR_SB" /\ expected = "LIMP_CALL"
            THEN Context(tag, _parse_expected_max_bb(tag))
            ELSE IF problem_kind = "JUEGO_3BET" /\ expected = "CALL"
                    /\ StartsWith(Upper(tag), "CALL_VS_OPEN_LE_")
            THEN Context(tag, _parse_expected_max_bb(tag))
            ELSE Nothing
    IN  IF ~stage1_correct THEN Nothing
        ELSE Policy(Strip(tag_upper), Upper(Strip(expected_action)))

\* the follow-up the policy asks for after the graded first-stage submit
PolicyFollowup ==
    maybe_create_followup(current_problem, DebugTag(Verdict), Verdict.action,
                          VerdictCorrect(Verdict))

\* C27: for a JUEGO_3BET question whose tag is CALL_VS_OPEN_LE_<N>X a correct CALL
\* starts the second stage: submit returns show_followup_buttons and engine.followup
\* holds expected_max_bb = N
C27_ThreeBetCallStartsFollowup ==
    (GradedFirstStage /\ current_problem = "JUEGO_3BET" /\ PolicyFollowup # Nothing) =>
        /\ last.res[1].show_followup_buttons
        /\ followup # Nothing
        /\ followup[1].expected_max_bb = PolicyFollowup[1].expected_max_bb

\* the last call was a submit that returned a final verdict for the current question
FinalVerdictGiven ==
    /\ last.op = "submit"
    /\ ~last.raised
    /\ last.res[1].show_next_button
    /\ last.res[1].is_correct \in {"True", "False"}
    /\ followup = Nothing

\* C28: once submit has returned a final verdict for the current question, a further
\* submit before the next new_question neither calls the judge again nor starts a
\* follow-up
C28_GradedOncePerStage ==
    [][FinalVerdictGiven /\ last'.op = "submit" =>
          /\ ~last'.judge_called
          /\ followup' = Nothing]_vars

\* the choices offered with the pending follow-up that submit grades correct
CorrectChoices ==
    {i \in 1..Len(FOLLOWUP_CHOICES) : Close(FOLLOWUP_CHOICES[i], followup[1].expected_max_bb)}

\* C29: whenever a follow-up is pending its expected_max_bb is one of the choices
\* offered with it (2, 2.25, 2.5, 3), so exactly one offered choice is graded correct
C29_ExpectedAmongChoices ==
    followup # Nothing =>
        /\ \E i \in 1..Len(FOLLOWUP_CHOICES) :
              SameNumber(FOLLOWUP_CHOICES[i], followup[1].expected_max_bb)
        /\ Cardinality(CorrectChoices) = 1

====
